---- MODULE Spec2Model ----
(***************************************************************************)
(* A model of the PufferPanel Discord bot: the global action lock          *)
(* (utils/rate_limiter.py), the Start/Stop/Restart button handlers         *)
(* (cogs/dashboard.py), the log pipeline (services/log_sync.py) with its    *)
(* message splitter, and the stream client (services/websocket_client.py). *)
(*                                                                         *)
(* The bot runs on one asyncio event loop: a coroutine runs without        *)
(* interruption from one await that really suspends to the next.  Each     *)
(* action below is one such uninterrupted stretch of a coroutine.  An      *)
(* await of asyncio.Lock.acquire() on a free lock does not suspend.        *)
(***************************************************************************)
EXTENDS Integers, Sequences, FiniteSets, TLC

(***************************************************************************)
(* Bounds of the model.                                                    *)
(***************************************************************************)
NumTasks == 3         \* button presses (handler coroutines) in one run
MaxTime == 3          \* seconds the clock runs past the start of the process
MaxCooldown == 2      \* configured actions.cooldown_sec ranges over 0..MaxCooldown
MaxStopTimeout == 1   \* configured actions.restart.stop_timeout_sec ranges over 0..MaxStopTimeout
MaxLen == 6           \* longest text given to the splitter taken alone
MaxBudget == 3        \* max_chars_per_post ranges over Reserve+1..Reserve+MaxBudget
MaxLines == 2
MaxDate == 2          \* local dates 1..MaxDate
MaxThreads == 2       \* threads the chat platform lets the pipeline create
MaxFails == 8         \* consecutive failed attempts of one reconnect loop, less one
MaxMsgs == 2          \* messages the stream delivers to one client
MaxEntries == 2       \* entries in one "logs" envelope
NumCallers == 2       \* handlers that call LogSyncService.start()

None == "None"

Tasks == 1..NumTasks
Buttons == {"start", "stop", "restart"}

\* time.time() at process start: seconds since 1970, beyond any configured
\* cooldown; the model's clock starts at the largest cooldown it configures.
StartTime == MaxCooldown

VARIABLES
    \* ---- environment and configuration
    now,                \* time.time(), whole seconds
    cooldown_sec,       \* GlobalActionLock.cooldown_sec (config.actions.cooldown_sec)
    stop_timeout_sec,   \* config.actions.restart.stop_timeout_sec
    \* ---- GlobalActionLock
    locked,             \* GlobalActionLock._lock.locked()
    current_action,     \* GlobalActionLock._current_action
    last_action_time,   \* GlobalActionLock._last_action_time
    \* ---- one button handler coroutine per task
    pc,                 \* where the handler is suspended
    button,             \* which button handler runs (None: not pressed / finished)
    result,             \* the handler's (success, blocking) from lock.acquire
    wake,               \* when the Restart handler's asyncio.sleep ends
    \* ---- StateManager
    last_action_type,   \* BotState.last_action_type
    \* ---- history, not read by any action
    granted,            \* granted[t]: acquire returned (True, None) to task t
    releases,           \* releases[t]: lock.release() calls made by task t
    grant_time,         \* time of the latest (True, None) return, -1 if none
    \* ---- the message splitter taken alone
    max_chars_per_post, \* config.logs.max_chars_per_post
    text,               \* the argument of _split_message
    split_chunks,       \* what _split_message returned
    split_done,         \* whether _split_message has been called
    \* ---- LogSyncService
    running,            \* _running
    log_buffer,         \* _log_buffer: the buffered lines, by line number
    current_thread,     \* _current_thread: a thread id, 0 for None
    current_date,       \* _current_date: a date, 0 for None
    fpc,                \* where each run of _flush_buffer (flush task, stop) is suspended
    flogs,              \* its local logs: the drained lines not yet sent
    fchunks,            \* its chunks from the one being sent on
    fthread,            \* the thread its pending send was issued to
    ctl,                \* where the caller of start() / stop() is suspended
    \* ---- StateManager (log part)
    state_logs_enabled,
    state_current_thread_id,
    state_current_date,
    \* ---- environment of the pipeline
    today,              \* the local date _get_current_date() resolves
    ws_on,              \* the stream client is started and delivers lines
    pending,            \* _add_to_buffer tasks created and not yet run
    line_text,          \* the text of each accepted line
    received,           \* lines accepted by _on_log_received so far
    threads_created,    \* threads created on the chat platform (ids 1..n)
    \* ---- history, not read by any action
    posts,              \* delivered posts: <<thread id, line numbers of the chunk>>
    flush_no,           \* drains of a non-empty buffer so far
    appended_during,    \* per line: the drain whose flush was in progress at its append, or 0
    drained_in,         \* per line: the drain that took it, or 0
    rotated_from,       \* threads that were current when a flush resolved another date
    start_ret,          \* what the latest start() returned: "True", "False", "unset" while it runs
    start_did,          \* the thread calls of the start() in progress, in order:
                        \* "fetch", "fetched", "create", "created"
    start_saw,          \* what the start() in progress found at its entry (see NothingSeen)
    ws_result,          \* how ws_client.start() ended in it: "connected", "failed", "raised"
    stop_ret,           \* how the latest stop() ended: "returned", "raised", "unset" while it runs
    last_send,          \* <<flusher, outcome>> of the send that has just ended; NoSend after any other step
    last_line,          \* the text _on_log_received has just been called with; NoLine after any other step
    \* ---- GlobalActionLock called directly (history, not read by any action)
    api_op,             \* the method called last: "acquire", "release", "remaining"
    api_granted,        \* the success that acquire returned last
    api_remaining,      \* what get_remaining_cooldown returned last
    api_blocking,       \* the blocking action that acquire returned last
    api_kind,           \* the action passed to the acquire that was granted last
    \* ---- WebSocketLogClient
    ws_running,         \* _running
    ws_connected,       \* _connected
    websocket,          \* _websocket: "none", or a connection that is "open" or "closed"
    reconnect_delay,    \* _reconnect_delay, seconds
    receive_task,       \* _receive_task: "none", or where that task is ("recv", "sleep", "done")
    reconnect_task,     \* _reconnect_task: "none", or where that task is ("sleep", "connect", "done")
    connect_pc,         \* where the one call of connect() in progress is suspended
    ws_caller,          \* where the caller of start() / disconnect() is
    token_valid,        \* PufferPanelClient.access_token is not None
    \* ---- history of the stream client, not read by its code
    msgs,               \* messages the socket has delivered
    console_in,         \* console envelopes with text among them (numbered 1..console_in)
    console_cb,         \* the console texts the log callback was invoked with, in order
    callbacks,          \* invocations of the log callback
    waited,             \* delays slept by the reconnect loop since the last successful connect
    prev_fails,         \* failed reconnect attempts before the last successful connect
    cancelled,          \* tasks that disconnect() cancelled while they were alive
    last_kind,          \* what the receive loop's latest recv() gave: a message kind
    handshake,          \* how connect()'s latest wait for the first message ended:
                        \* "timeout", "closed" or the kind of the message
    \* ---- the messages of the stream taken with their content
    message,            \* message_raw of the receive loop's latest recv()
    called_with,          \* <<n, line>>: the log callback was invoked with line while
                        \* the n-th message was processed, in the order of the calls
    rx_count,           \* messages the receive loop has processed
    \* ---- LogSyncService.start() called by several handlers at once
    start_pc,           \* where each caller of start() is: "idle", "get_thread", "create",
                        \* "ws_start", "done"
    start_result,       \* what start() returned to each caller, "unset" before
    flush_task,         \* _flush_task: 0, or the flush task made by the start() of that caller
    live_flush,         \* flush tasks that were created and not cancelled
    the_ws_client,      \* the global _ws_client: 0, or the client made by that caller's start()
    live_clients,       \* stream clients with a receive or reconnect task
    stop_pc,            \* where the one call of stop() is: "idle", "flush", "disconnect", "done"
    stop_target,        \* the client that stop() got from get_websocket_client()
    \* ---- the bot process (bot.py)
    proc,               \* "ready" (constructed, on_ready not yet run), "up", "closing"
                        \* (close() is awaiting stop()), "down"
    auto_resume,        \* config.logs.auto_resume
    ran_at_close,       \* is_running as close() read it last
    \* ---- commands from the log thread (cogs/dashboard.py on_message)
    last_forward        \* the message whose content on_message has just passed to
                        \* send_command; NoForward after any other step

lockVars == <<locked, current_action, last_action_time>>
confVars == <<cooldown_sec, stop_timeout_sec>>
taskVars == <<pc, button, result, wake>>
histVars == <<granted, releases, grant_time>>
dashVars == <<now, confVars, lockVars, taskVars, last_action_type, histVars>>

splitVars == <<text, split_chunks, split_done>>

svcVars == <<running, log_buffer, current_thread, current_date>>
flushVars == <<fpc, flogs, fchunks, fthread>>
stateVars == <<state_logs_enabled, state_current_thread_id, state_current_date>>
envVars == <<today, ws_on, pending, line_text, received, threads_created>>
logHist == <<posts, flush_no, drained_in, rotated_from>>
callHist == <<start_ret, start_did, start_saw, ws_result, stop_ret>>
logVars == <<svcVars, flushVars, ctl, stateVars, envVars, logHist, callHist>>

apiVars == <<api_op, api_granted, api_remaining, api_blocking, api_kind>>

wsState == <<ws_running, ws_connected, websocket, reconnect_delay, receive_task,
             reconnect_task, connect_pc>>
msgHist == <<last_kind, handshake>>
wsHist == <<msgs, console_in, console_cb, callbacks, waited, prev_fails, cancelled, msgHist>>
wsVars == <<wsState, ws_caller, token_valid, wsHist>>

sendHist == <<last_send>>
appendHist == <<appended_during>>
lineHist == <<last_line>>
rxVars == <<message, called_with, rx_count>>
procVars == <<proc, auto_resume, ran_at_close>>
cmdHist == <<last_forward>>
startVars == <<start_pc, start_result, flush_task, live_flush, the_ws_client, live_clients,
               stop_pc, stop_target>>

\* No send has just ended.
NoSend == <<"none", "none">>

\* The callback has not just been called.
NoLine == <<"none">>

vars == <<dashVars, max_chars_per_post, splitVars, logVars, apiVars, wsVars, sendHist, appendHist,
          lineHist, rxVars, startVars, procVars, cmdHist>>

NoResult == <<FALSE, "unset">>

(***************************************************************************)
(* GlobalActionLock (utils/rate_limiter.py)                                *)
(***************************************************************************)
GlobalActionLockInit ==
    /\ locked = FALSE
    /\ last_action_time = 0
    /\ current_action = None

\* acquire(action) returning (success, blocking); no await in it suspends.
acquire_unchecked(action, success, blocking) ==
    \/ /\ now - last_action_time < cooldown_sec
       /\ success = FALSE /\ blocking = "cooldown"
       /\ UNCHANGED lockVars
    \/ /\ ~(now - last_action_time < cooldown_sec)
       /\ success = TRUE /\ blocking = None
       /\ locked' = TRUE
       /\ current_action' = action
       /\ last_action_time' = now

acquire_no_cooldown(action, success, blocking) ==
    \/ /\ locked
       /\ success = FALSE /\ blocking = current_action
       /\ UNCHANGED lockVars
    \/ /\ ~locked
       /\ success = TRUE /\ blocking = None
       /\ locked' = TRUE
       /\ current_action' = action
       /\ last_action_time' = now

acquire_stale_time(action, success, blocking) ==
    \/ /\ locked
       /\ success = FALSE /\ blocking = current_action
       /\ UNCHANGED lockVars
    \/ /\ ~locked
       /\ now - last_action_time < cooldown_sec
       /\ success = FALSE /\ blocking = "cooldown"
       /\ UNCHANGED lockVars
    \/ /\ ~locked
       /\ ~(now - last_action_time < cooldown_sec)
       /\ success = TRUE /\ blocking = None
       /\ locked' = TRUE
       /\ current_action' = action
       /\ UNCHANGED last_action_time

acquire_blocking_cooldown(action, success, blocking) ==
    \/ /\ locked
       /\ success = FALSE /\ blocking = "cooldown"
       /\ last_action_time' = now
       /\ UNCHANGED <<locked, current_action>>
    \/ /\ ~locked
       /\ now - last_action_time < cooldown_sec
       /\ success = FALSE /\ blocking = "cooldown"
       /\ UNCHANGED lockVars
    \/ /\ ~locked
       /\ ~(now - last_action_time < cooldown_sec)
       /\ success = TRUE /\ blocking = None
       /\ locked' = TRUE
       /\ current_action' = action
       /\ last_action_time' = now

acquire_cooldown_keeps_lock(action, success, blocking) ==
    \/ /\ locked
       /\ success = FALSE /\ blocking = current_action
       /\ UNCHANGED lockVars
    \/ /\ ~locked
       /\ now - last_action_time < cooldown_sec
       /\ success = FALSE /\ blocking = "cooldown"
       /\ locked' = TRUE
       /\ UNCHANGED <<current_action, last_action_time>>
    \/ /\ ~locked
       /\ ~(now - last_action_time < cooldown_sec)
       /\ success = TRUE /\ blocking = None
       /\ locked' = TRUE
       /\ current_action' = action
       /\ last_action_time' = now

acquire(action, success, blocking) ==
    \/ /\ locked                               \* if self._lock.locked()
       /\ success = FALSE /\ blocking = current_action
       /\ UNCHANGED lockVars
    \/ /\ ~locked                              \* await self._lock.acquire()
       /\ now - last_action_time < cooldown_sec
       /\ success = FALSE /\ blocking = "cooldown"
       /\ UNCHANGED lockVars                   \* self._lock.release()
    \/ /\ ~locked
       /\ ~(now - last_action_time < cooldown_sec)
       /\ success = TRUE /\ blocking = None
       /\ locked' = TRUE
       /\ current_action' = action
       /\ last_action_time' = now

\* release()
release_keeps_holder ==
    /\ locked' = FALSE
    /\ UNCHANGED <<current_action, last_action_time>>

release_restarts_cooldown ==
    /\ current_action' = None
    /\ locked' = FALSE
    /\ last_action_time' = now

release ==
    /\ current_action' = None
    /\ locked' = FALSE      \* if self._lock.locked(): self._lock.release()
    /\ UNCHANGED last_action_time

Max(a, b) == IF a >= b THEN a ELSE b

\* get_remaining_cooldown()
get_remaining_cooldown_unclamped == cooldown_sec - (now - last_action_time)

get_remaining_cooldown == Max(0, cooldown_sec - (now - last_action_time))

(***************************************************************************)
(* DashboardView button handlers (cogs/dashboard.py).  start_button,       *)
(* stop_button and restart_button share their shape; button[t] tells them  *)
(* apart.  Every handler passes the kind "server_action" to acquire.       *)
(***************************************************************************)
Holding(t) == granted[t] /\ releases[t] = 0

\* Where the handler goes on the (success, blocking) it got from acquire.
after_acquire_ignored(success) == "defer"

after_acquire(success) ==
    IF success THEN "defer"      \* enters the try block
    ELSE "refused"               \* await interaction.response.send_message(...); return

\* The handler returns: its locals are gone.
handler_exit(t) ==
    /\ pc' = [pc EXCEPT ![t] = "done"]
    /\ button' = [button EXCEPT ![t] = None]
    /\ result' = [result EXCEPT ![t] = NoResult]
    /\ wake' = [wake EXCEPT ![t] = 0]

\* finally: lock.release(), then the handler returns.
finally_no_release(t) ==
    /\ handler_exit(t)
    /\ UNCHANGED <<lockVars, releases>>

finally_release(t) ==
    /\ release
    /\ releases' = [releases EXCEPT ![t] = @ + 1]
    /\ handler_exit(t)

\* A button is pressed: _permission_check, lock.acquire("server_action") and
\* the branch on its result run without suspending.
press(t) ==
    /\ pc[t] = "idle"
    /\ \A u \in Tasks : u < t => pc[u] # "idle"    \* tasks are numbered in press order
    /\ \E b \in Buttons, permitted \in BOOLEAN :
        \/ /\ ~permitted                        \* send_message(...); return
           /\ pc' = [pc EXCEPT ![t] = "done"]
           /\ UNCHANGED <<lockVars, button, result, wake, histVars>>
        \/ /\ permitted
           /\ \E success \in BOOLEAN, blocking \in {None, "cooldown", "server_action"} :
                /\ acquire("server_action", success, blocking)
                /\ result' = [result EXCEPT ![t] = <<success, blocking>>]
                /\ pc' = [pc EXCEPT ![t] = after_acquire(success)]
                /\ granted' = [granted EXCEPT ![t] = success]
                /\ grant_time' = IF success THEN now ELSE grant_time
           /\ button' = [button EXCEPT ![t] = b]
           /\ UNCHANGED <<wake, releases>>
    /\ UNCHANGED <<now, confVars, last_action_type>>

\* The refusal message was sent (or sending it raised): the handler returns.
refused_return(t) ==
    /\ pc[t] = "refused"
    /\ handler_exit(t)
    /\ UNCHANGED <<now, confVars, lockVars, last_action_type, histVars>>

\* await interaction.response.defer(...) ends; on success the handler issues
\* its first remote call (start_server for Start, stop_server otherwise).
defer_done(t) ==
    /\ pc[t] = "defer"
    /\ \/ finally_release(t)                    \* defer raised
       \/ /\ pc' = [pc EXCEPT ![t] = IF button[t] = "start" THEN "start_call" ELSE "stop_call"]
          /\ UNCHANGED <<lockVars, button, result, wake, releases>>
    /\ UNCHANGED <<now, confVars, last_action_type, granted, grant_time>>

\* StateManager.update_last_action(action_type, user) assigns last_action_time,
\* last_action_type and last_action_user together; the model follows the
\* record by its type.
update_last_action_as_start(action_type, user) == last_action_type' = "start"

update_last_action(action_type, user) == last_action_type' = action_type

\* state.update_last_action(kind, user), then await interaction.followup.send.
audit_and_notify(t, kind) ==
    /\ update_last_action(kind, t)
    /\ \/ /\ finally_release(t)                 \* save() raised
       \/ /\ pc' = [pc EXCEPT ![t] = "followup_ok"]
          /\ UNCHANGED <<lockVars, button, result, wake, releases>>

\* await client.start_server() / client.stop_server() ends.
call_return(t) ==
    /\ pc[t] \in {"start_call", "stop_call"}
    /\ \E outcome \in {"true", "false", "raise"} :
        \/ /\ outcome = "raise"                 \* e.g. AuthenticationError
           /\ finally_release(t)
           /\ UNCHANGED last_action_type
        \/ /\ outcome = "false"                 \* APIError caught in the client
           /\ pc' = [pc EXCEPT ![t] = "followup_fail"]
           /\ UNCHANGED <<lockVars, button, result, wake, releases, last_action_type>>
        \/ /\ outcome = "true"
           /\ button[t] = "restart" /\ pc[t] = "stop_call"
           /\ pc' = [pc EXCEPT ![t] = "sleep"]  \* await asyncio.sleep(stop_timeout_sec)
           /\ wake' = [wake EXCEPT ![t] = now + stop_timeout_sec]
           /\ UNCHANGED <<lockVars, button, result, releases, last_action_type>>
        \/ /\ outcome = "true"
           /\ ~(button[t] = "restart" /\ pc[t] = "stop_call")
           /\ audit_and_notify(t, button[t])
    /\ UNCHANGED <<now, confVars, granted, grant_time>>

\* Restart: the sleep between stop and start ends and start_server is issued.
sleep_cut_short(t) ==
    /\ pc[t] = "sleep"
    /\ pc' = [pc EXCEPT ![t] = "start_call"]
    /\ UNCHANGED <<now, confVars, lockVars, button, result, wake, last_action_type, histVars>>

sleep_done(t) ==
    /\ pc[t] = "sleep"
    /\ now >= wake[t]
    /\ pc' = [pc EXCEPT ![t] = "start_call"]
    /\ UNCHANGED <<now, confVars, lockVars, button, result, wake, last_action_type, histVars>>

\* await interaction.followup.send(...) ends.
followup_done(t) ==
    /\ \/ /\ pc[t] = "followup_fail"            \* failure message sent, or raised; return
          /\ finally_release(t)
       \/ /\ pc[t] = "followup_ok"
          /\ \/ finally_release(t)              \* followup.send raised
             \/ /\ pc' = [pc EXCEPT ![t] = "dashboard"]   \* await update_dashboard(...)
                /\ UNCHANGED <<lockVars, button, result, wake, releases>>
    /\ UNCHANGED <<now, confVars, last_action_type, granted, grant_time>>

\* await update_dashboard(...) ends (it catches its own exceptions).
dashboard_done(t) ==
    /\ pc[t] = "dashboard"
    /\ finally_release(t)
    /\ UNCHANGED <<now, confVars, last_action_type, granted, grant_time>>

\* One second passes.
Tick ==
    /\ now < StartTime + MaxTime
    /\ now' = now + 1
    /\ UNCHANGED <<confVars, lockVars, taskVars, last_action_type, histVars>>

DashInit ==
    /\ now = StartTime
    /\ cooldown_sec \in 0..MaxCooldown
    /\ stop_timeout_sec \in 0..MaxStopTimeout
    /\ GlobalActionLockInit
    /\ pc = [t \in Tasks |-> "idle"]
    /\ button = [t \in Tasks |-> None]
    /\ result = [t \in Tasks |-> NoResult]
    /\ wake = [t \in Tasks |-> 0]
    /\ last_action_type = None
    /\ granted = [t \in Tasks |-> FALSE]
    /\ releases = [t \in Tasks |-> 0]
    /\ grant_time = -1

(***************************************************************************)
(* Claims about the global action lock and the button handlers.            *)
(***************************************************************************)
\* Task t calls lock.acquire in this step.
Acquires(t) == pc[t] = "idle" /\ pc'[t] \in {"defer", "refused"}

InRemoteCall(t) == pc[t] \in {"start_call", "stop_call"}

\* C1: at most one caller holds a grant at any time: no acquire returns
\* (True, None) between a granted acquire and its matching release.
C1_AtMostOneHolder ==
    /\ Cardinality({t \in Tasks : Holding(t)}) <= 1
    /\ (\E t \in Tasks : Holding(t)) => locked

\* A holder is in flight while another press was turned away only by the lock
\* (the cooldown had already elapsed).
C1_Witness ==
    \E t, u \in Tasks :
        /\ t # u /\ Holding(t)
        /\ cooldown_sec > 0 /\ now - grant_time >= cooldown_sec
        /\ pc[u] = "refused" /\ result[u] = <<FALSE, "server_action">>

\* C2: no handler has a remote start_server/stop_server call in flight while
\* another handler is between its granted acquire and its release; a Restart
\* handler holds its grant through the stop call, the delay and the start call.
C2_NoOverlappingActions ==
    /\ \A t, u \in Tasks : (InRemoteCall(t) /\ t # u) => ~Holding(u)
    /\ \A t \in Tasks : (InRemoteCall(t) \/ pc[t] = "sleep") => (Holding(t) /\ locked)

\* A Restart is in its delay between stop and start while another press is
\* being turned away.
C2_Witness ==
    \E t, u \in Tasks :
        /\ t # u /\ button[t] = "restart" /\ pc[t] = "sleep" /\ now < wake[t]
        /\ pc[u] = "refused" /\ button[u] = "start"

\* C3: once a grant has been released, an acquire made less than cooldown_sec
\* after that grant returns (False, "cooldown").
C3_CooldownRefuses ==
    [][\A t \in Tasks :
        ( /\ Acquires(t)
          /\ grant_time >= 0
          /\ \A u \in Tasks : ~Holding(u)
          /\ now - grant_time < cooldown_sec )
        => result'[t] = <<FALSE, "cooldown">>]_vars

\* A press was refused for cooldown after an earlier grant was released.
C3_Witness ==
    \E t, u \in Tasks :
        /\ pc[t] = "refused" /\ result[t] = <<FALSE, "cooldown">>
        /\ granted[u] /\ releases[u] = 1
        /\ \A v \in Tasks : ~Holding(v)

\* C4: an acquire made while no grant is outstanding is granted exactly when
\* at least cooldown_sec has passed since the last grant (the first acquire
\* always); a grant returns (True, None) and records the grant time and the
\* holder kind.
C4_GrantedIffCooldownElapsed ==
    [][\A t \in Tasks :
        ( Acquires(t) /\ \A u \in Tasks : ~Holding(u) )
        => /\ result'[t][1] <=> (grant_time < 0 \/ now - grant_time >= cooldown_sec)
           /\ result'[t][1] =>
                /\ result'[t] = <<TRUE, None>>
                /\ locked'
                /\ last_action_time' = now
                /\ current_action' = "server_action"]_vars

\* A second grant was given once the cooldown had elapsed, although the first
\* guarded action never succeeded.
C4_Witness ==
    \E t, u \in Tasks :
        /\ t # u /\ granted[t] /\ releases[t] = 1
        /\ Holding(u) /\ result[u] = <<TRUE, None>>
        /\ cooldown_sec > 0 /\ last_action_type = None

\* C5: when a handler has finished it has released the lock exactly once if
\* its acquire was granted and never otherwise; the lock is held only while a
\* granted handler is still running.
C5_ReleasedExactlyOnce ==
    /\ \A t \in Tasks :
        /\ releases[t] <= 1
        /\ releases[t] = 1 => granted[t]
        /\ pc[t] = "done" => releases[t] = (IF granted[t] THEN 1 ELSE 0)
    /\ locked => \E t \in Tasks : Holding(t) /\ pc[t] \notin {"idle", "refused", "done"}

\* Two granted handlers have finished, one without and one with a successful
\* action, and the lock is free.
C5_Witness ==
    /\ ~locked
    /\ \A t \in Tasks : pc[t] = "done"
    /\ Cardinality({t \in Tasks : granted[t] /\ releases[t] = 1}) >= 2
    /\ last_action_type = "restart"

\* C6: an acquire made while a grant is outstanding returns
\* (False, kind of the holder) in the same step and changes nothing in the lock.
C6_HeldRefusesWithHolder ==
    [][\A t \in Tasks :
        ( Acquires(t) /\ \E u \in Tasks : Holding(u) )
        => /\ result'[t] = <<FALSE, "server_action">>
           /\ pc'[t] = "refused"
           /\ UNCHANGED lockVars]_vars

\* A press is turned away while the holder waits for update_dashboard.
C6_Witness ==
    \E t, u \in Tasks :
        /\ Holding(u) /\ pc[u] = "dashboard"
        /\ pc[t] = "refused" /\ result[t] = <<FALSE, "server_action">>

\* C33: the Restart handler holds the lock from its acquire to its return.  It
\* calls stop_server first; when that succeeded it sleeps stop_timeout_sec from
\* that moment and only then calls start_server; when stop_server failed or
\* raised it goes on to its return without calling start_server, and the lock
\* is free when it has returned.
C33_RestartStopsWaitsStarts ==
    [][\A t \in Tasks :
         button[t] = "restart" =>
           /\ pc'[t] \in {"defer", "stop_call", "sleep", "start_call", "followup_ok",
                          "followup_fail", "dashboard"}
                => (Holding(t)' /\ locked' /\ current_action' = "server_action")
           /\ (pc[t] = "defer" /\ pc'[t] # "defer") => pc'[t] \in {"stop_call", "done"}
           /\ (pc[t] = "stop_call" /\ pc'[t] = "sleep") => wake'[t] = now + stop_timeout_sec
           /\ (pc[t] # "start_call" /\ pc'[t] = "start_call")
                => (pc[t] = "sleep" /\ now >= wake[t])
           /\ (pc[t] = "stop_call" /\ pc'[t] \notin {"stop_call", "sleep"})
                => pc'[t] \in {"followup_fail", "done"}
           /\ (pc[t] = "followup_fail" /\ pc'[t] # "followup_fail") => pc'[t] = "done"
           /\ (pc[t] # "done" /\ pc'[t] = "done" /\ granted[t])
                => (~locked' /\ releases'[t] = 1)]_vars

\* A Restart handler has slept a delay that is not zero and has called
\* start_server, the lock still held.
C33_Witness ==
    \E t \in Tasks :
        /\ button[t] = "restart" /\ pc[t] = "start_call"
        /\ stop_timeout_sec > 0 /\ now >= wake[t] /\ wake[t] >= grant_time + stop_timeout_sec
        /\ Holding(t) /\ locked

\* The handler of task t is at its last remote call: start_server for Start and
\* Restart, stop_server for Stop.
AtLastCall(t) ==
    \/ button[t] \in {"start", "restart"} /\ pc[t] = "start_call"
    \/ button[t] = "stop" /\ pc[t] = "stop_call"

\* C34: the audit record is written when a handler's last remote call has
\* succeeded, with the kind of its button, and by no other step: not by a
\* refused acquire, not by a remote call that failed or raised, and not by
\* Restart's stop_server.
C34_AuditOnlyOnSuccess ==
    [][/\ \A t \in Tasks :
            /\ (pc[t] # "followup_ok" /\ pc'[t] = "followup_ok")
                 => (AtLastCall(t) /\ last_action_type' = button[t])
            /\ (pc[t] # pc'[t] /\ pc'[t] \in {"refused", "defer", "stop_call", "start_call",
                                                "sleep", "followup_fail", "dashboard"})
                 => last_action_type' = last_action_type
            /\ (pc[t] # pc'[t] /\ pc'[t] = "done" /\ ~AtLastCall(t))
                 => last_action_type' = last_action_type
       /\ last_action_type' # last_action_type
            => \E t \in Tasks : /\ AtLastCall(t)
                                /\ pc'[t] \in {"followup_ok", "done"}
                                /\ last_action_type' = button[t]]_vars

\* A Stop has succeeded after a Start had: the record names the Stop, while the
\* success message is being sent.
C34_Witness ==
    \E t \in Tasks :
        /\ pc[t] = "followup_ok" /\ button[t] = "stop"
        /\ last_action_type = "stop"
        /\ \E u \in Tasks : u < t /\ granted[u] /\ releases[u] = 1

(***************************************************************************)
(* GlobalActionLock taken alone: its three methods called in any order, at *)
(* any time, by any caller.                                                *)
(***************************************************************************)
ApiInit ==
    /\ api_op = None
    /\ api_granted = FALSE
    /\ api_remaining = 0
    /\ api_blocking = None
    /\ api_kind = None

\* The actions a caller may name: the one the dashboard passes, and another.
ActionKinds == {"server_action", "backup"}

\* await lock.acquire(action)
call_acquire ==
    /\ \E action \in ActionKinds, success \in BOOLEAN,
          blocking \in {None, "cooldown"} \cup ActionKinds :
          /\ acquire(action, success, blocking)
          /\ api_granted' = success
          /\ api_blocking' = blocking
          /\ api_kind' = IF success THEN action ELSE api_kind
    /\ api_op' = "acquire"
    /\ UNCHANGED <<now, confVars, taskVars, last_action_type, histVars, api_remaining>>

\* lock.release()
call_release ==
    /\ release
    /\ api_op' = "release"
    /\ UNCHANGED <<now, confVars, taskVars, last_action_type, histVars, api_granted,
                   api_remaining, api_blocking, api_kind>>

\* lock.get_remaining_cooldown()
call_get_remaining_cooldown ==
    /\ api_remaining' = get_remaining_cooldown
    /\ api_op' = "remaining"
    /\ UNCHANGED <<now, confVars, lockVars, taskVars, last_action_type, histVars, api_granted,
                   api_blocking, api_kind>>

\* C18: release() called while the lock is not held leaves the lock free, the
\* holder marker None and the last grant time as they were.
C18_ReleaseWhenFreeIsNoOp ==
    [][(api_op' = "release" /\ now' = now /\ ~locked)
         => (/\ locked' = FALSE
             /\ current_action = None /\ current_action' = None
             /\ last_action_time' = last_action_time)]_vars

\* release() was called on a free lock whose cooldown is still running.
C18_Witness ==
    /\ api_op = "release" /\ ~locked
    /\ last_action_time = now /\ cooldown_sec > 0

\* C19: get_remaining_cooldown() changes nothing and returns
\* max(0, cooldown_sec - (now - last grant time)), a value in 0..cooldown_sec;
\* an acquire on a free lock is granted exactly when that value is 0.
C19_RemainingCooldown ==
    [][/\ (api_op' = "remaining" /\ now' = now)
          => /\ UNCHANGED lockVars
             /\ api_remaining' >= 0 /\ api_remaining' <= cooldown_sec
             /\ api_remaining' = Max(0, cooldown_sec - (now - last_action_time))
       /\ (api_op' = "acquire" /\ now' = now /\ ~locked)
          => (api_granted' <=> get_remaining_cooldown = 0)]_vars

\* The method returned a cooldown strictly between 0 and cooldown_sec on a
\* free lock.
C19_Witness ==
    /\ api_op = "remaining" /\ ~locked
    /\ api_remaining > 0 /\ api_remaining < cooldown_sec
    /\ api_remaining = cooldown_sec - (now - last_action_time)

\* C28: an acquire refused for the cooldown leaves the lock as it found it:
\* free when acquire returns, the holder marker None, the last grant time as
\* it was; nobody sees the lock held by the refused caller.
C28_CooldownRefusalChangesNothing ==
    [][(api_op' = "acquire" /\ now' = now /\ api_blocking' = "cooldown")
         => /\ ~api_granted'
            /\ ~locked /\ ~locked'
            /\ current_action' = None
            /\ last_action_time' = last_action_time
            /\ now - last_action_time < cooldown_sec]_vars

\* An acquire was refused for the cooldown, after a grant and a release.
C28_Witness ==
    /\ api_op = "acquire" /\ api_blocking = "cooldown" /\ ~api_granted
    /\ api_kind # None
    /\ ~locked /\ current_action = None
    /\ last_action_time < now

\* C29: the holder marker is not None exactly when the lock is held, and it
\* is then the action passed to the acquire that was granted; an acquire
\* refused because the lock is held reports that action, never None.
C29_HolderMarkerMatchesLock ==
    [][/\ current_action' # None <=> locked'
       /\ locked' => current_action' = api_kind'
       /\ (api_op' = "acquire" /\ now' = now /\ locked)
            => /\ ~api_granted'
               /\ api_blocking' = current_action
               /\ api_blocking' \in ActionKinds
               /\ api_blocking' = api_kind]_vars

\* An acquire for one action was refused with the other action as the holder.
C29_Witness ==
    /\ api_op = "acquire" /\ ~api_granted
    /\ locked /\ current_action = "backup"
    /\ api_blocking = "backup"

(***************************************************************************)
(* LogSyncService._split_message (services/log_sync.py).  A text is a      *)
(* sequence of characters.                                                 *)
(***************************************************************************)
NL == "\n"
Chars == {"a", NL}
Reserve == 10       \* max_len = max_chars_per_post - 10

\* All texts of at most n characters.
TextsUpTo(n) == UNION {[1..k -> Chars] : k \in 0..n}

\* text.split("\n")
RECURSIVE split(_)
split(t) ==
    IF \A i \in 1..Len(t) : t[i] # NL THEN <<t>>
    ELSE LET i == CHOOSE j \in 1..Len(t) : t[j] = NL /\ \A k \in 1..(j - 1) : t[k] # NL
         IN  <<SubSeq(t, 1, i - 1)>> \o split(SubSeq(t, i + 1, Len(t)))

\* "\n".join(lines)
RECURSIVE join(_)
join(lines) ==
    IF lines = <<>> THEN <<>>
    ELSE IF Len(lines) = 1 THEN lines[1]
    ELSE lines[1] \o <<NL>> \o join(Tail(lines))

\* One pass of the loop "for line in lines" over the pair (chunks, current_chunk).
split_step(acc, line, max_len) ==
    IF Len(acc[2]) + Len(line) + 1 > max_len
    THEN <<IF acc[2] # <<>> THEN Append(acc[1], acc[2]) ELSE acc[1], line>>
    ELSE <<acc[1], IF acc[2] # <<>> THEN acc[2] \o <<NL>> \o line ELSE line>>

RECURSIVE split_loop(_, _, _)
split_loop(acc, lines, max_len) ==
    IF lines = <<>> THEN acc
    ELSE split_loop(split_step(acc, Head(lines), max_len), Tail(lines), max_len)

\* _split_message(text) with max_len = max_chars_per_post - 10
split_message(t, max_chars) ==
    LET max_len == max_chars - Reserve
    IN  IF Len(t) <= max_len
        THEN (IF t # <<>> THEN <<t>> ELSE <<>>)
        ELSE LET acc == split_loop(<<<<>>, <<>>>>, split(t), max_len)
             IN  IF acc[2] # <<>> THEN Append(acc[1], acc[2]) ELSE acc[1]

\* The splitter is called once on an arbitrary text.
SplitInit ==
    /\ max_chars_per_post \in (Reserve + 1)..(Reserve + MaxBudget)
    /\ text \in TextsUpTo(MaxLen)
    /\ split_chunks = <<>>
    /\ split_done = FALSE

call_split_message ==
    /\ ~split_done
    /\ split_chunks' = split_message(text, max_chars_per_post)
    /\ split_done' = TRUE
    /\ UNCHANGED <<text, max_chars_per_post>>

SplitIdle ==
    /\ max_chars_per_post = Reserve + MaxBudget
    /\ text = <<>>
    /\ split_chunks = <<>>
    /\ split_done = FALSE

\* C9: joining the chunks returned by the splitter with newlines reproduces
\* the input text exactly.
C9_JoinReproducesInput ==
    split_done => join(split_chunks) = text

\* C10: no chunk returned by the splitter is longer than
\* max_chars_per_post minus the reserve of 10.
C10_ChunkWithinBudget ==
    split_done => \A i \in 1..Len(split_chunks) :
                      Len(split_chunks[i]) <= max_chars_per_post - Reserve

\* The chunks are the lines cut into consecutive groups, ends[i] being the last
\* line of chunk i: every chunk is its lines joined by newlines, and a chunk
\* ends only where the next line with its separator would pass max_len.
PackedAt(chunks, lines, ends, max_len) ==
    /\ \A i \in 1..Len(chunks) :
          LET first == IF i = 1 THEN 1 ELSE ends[i - 1] + 1
          IN  /\ first <= ends[i]
              /\ chunks[i] = join(SubSeq(lines, first, ends[i]))
    /\ ends[Len(chunks)] = Len(lines)
    /\ \A i \in 1..(Len(chunks) - 1) :
          Len(chunks[i]) + 1 + Len(lines[ends[i] + 1]) > max_len

\* C23: the chunks of a non-empty text are its lines, whole and in order,
\* packed greedily: each chunk is consecutive lines joined by newlines, and a
\* new chunk starts only where the next line with its separator would not fit.
C23_WholeLinesPackedGreedily ==
    (split_done /\ text # <<>>) =>
        /\ split_chunks # <<>>
        /\ \E ends \in [1..Len(split_chunks) -> 1..Len(split(text))] :
              PackedAt(split_chunks, split(text), ends, max_chars_per_post - Reserve)

(***************************************************************************)
(* LogSyncService (services/log_sync.py).  The buffer lock is held only    *)
(* inside stretches that do not suspend, so it is free at every state of   *)
(* the model and "async with self._buffer_lock" never waits.               *)
(*                                                                         *)
(* _flush_buffer is run by the flush task ("loop") and by stop() ("stop"). *)
(* start() and stop() are called by one caller at a time.                  *)
(***************************************************************************)
Flushers == {"loop", "stop"}
LineIds == 1..MaxLines
Blank == " "
\* Lines the stream delivers: two that _on_log_received drops, two it keeps.
DeliveredTexts == {<<>>, <<Blank>>, <<"a">>, <<"a", "a", "a">>}

\* Texts the callback is called with: empty, whitespace of two kinds, text, and
\* text behind whitespace.
CallbackTexts == {<<>>, <<Blank>>, <<NL>>, <<Blank, NL>>, <<"a">>, <<Blank, "a">>}

Range(f) == {f[i] : i \in DOMAIN f}

\* log_line.strip()
only_first_stripped(t) == t[1] \in {Blank, NL}

strip_is_empty(t) == \A i \in 1..Len(t) : t[i] \in {Blank, NL}

\* The lines of a chunk: the model's lines hold no newline.
LinesIn(chunk) == Cardinality({i \in 1..Len(chunk) : chunk[i] = NL}) + 1

\* "\n".join(logs), split by _split_message
chunks_of(logs) ==
    split_message(join([i \in 1..Len(logs) |-> line_text[logs[i]]]), max_chars_per_post)

FlushActive(c) == fpc[c] \in {"create", "send", "retry_wait", "retry_send"}

\* A task that stop() has cancelled gets CancelledError when it next runs: it
\* takes no other step.
may_run(c) == c = "loop" => ctl # "stop_await_task"

SetFlush(c, p, logs, chunks, th) ==
    /\ fpc' = [fpc EXCEPT ![c] = p]
    /\ flogs' = [flogs EXCEPT ![c] = logs]
    /\ fchunks' = [fchunks EXCEPT ![c] = chunks]
    /\ fthread' = [fthread EXCEPT ![c] = th]

\* _flush_buffer returns.  The flush task goes back to
\* "while self._running: await asyncio.sleep(batch_seconds)"; stop() goes on to
\* ws_client.disconnect(), which stops the stream before it first suspends.
flush_return(c) ==
    /\ SetFlush(c, IF c = "loop" THEN "sleep" ELSE "none", <<>>, <<>>, 0)
    /\ IF c = "stop"
       THEN ctl' = "stop_disconnect" /\ ws_on' = FALSE
       ELSE UNCHANGED <<ctl, ws_on>>

\* _flush_buffer is left by an exception that it does not catch.  In the flush
\* task _flush_loop catches it ("except Exception": print, next sleep); in
\* stop() nothing catches it: stop() ends there, before ws_client.disconnect()
\* and update_logs(enabled=False).
flush_raises(c) ==
    /\ SetFlush(c, IF c = "loop" THEN "sleep" ELSE "none", <<>>, <<>>, 0)
    /\ IF c = "stop"
       THEN ctl' = "idle" /\ stop_ret' = "raised"
       ELSE UNCHANGED <<ctl, stop_ret>>
    /\ UNCHANGED ws_on

\* _flush_buffer suspends at an await.
flush_suspend(c, p, logs, chunks, th) ==
    /\ SetFlush(c, p, logs, chunks, th)
    /\ IF c = "stop" THEN ctl' = "stop_flush" ELSE UNCHANGED ctl
    /\ UNCHANGED ws_on

\* for chunk in chunks: await self._current_thread.send(...)
send_chunks(c, logs, chunks, th) ==
    IF chunks = <<>> THEN flush_return(c)
    ELSE flush_suspend(c, "send", logs, chunks, th)

\* The loop moves on from the chunk it attempted.
next_chunk(c) ==
    send_chunks(c, SubSeq(flogs[c], LinesIn(Head(fchunks[c])) + 1, Len(flogs[c])),
                Tail(fchunks[c]), current_thread)

\* The chunk being sent was delivered to the thread it was issued to.
delivered(c) ==
    posts' = Append(posts, <<fthread[c], SubSeq(flogs[c], 1, LinesIn(Head(fchunks[c])))>>)

\* async with self._buffer_lock: logs = self._log_buffer.copy(); self._log_buffer.clear()
drain_buffer_no_clear == UNCHANGED log_buffer

drain_buffer == log_buffer' = <<>>

\* _flush_buffer from its entry to its first await or its return.
flush_buffer_enter(c) ==
    \/ /\ log_buffer = <<>>                       \* if not self._log_buffer: return
       /\ flush_return(c)
       /\ UNCHANGED <<log_buffer, current_thread, current_date, flush_no, drained_in, rotated_from>>
    \/ /\ log_buffer # <<>>
       /\ drain_buffer
       /\ flush_no' = flush_no + 1
       /\ drained_in' = [i \in LineIds |-> IF i \in Range(log_buffer) THEN flush_no + 1 ELSE drained_in[i]]
       /\ \/ /\ current_thread = 0                \* if not self._current_thread: return
             /\ flush_return(c)
             /\ UNCHANGED <<current_thread, current_date, rotated_from>>
          \/ /\ current_thread # 0
             /\ today # current_date              \* date change: rotate
             /\ current_date' = today
             /\ flush_suspend(c, "create", log_buffer, <<>>, 0)   \* await self._create_daily_thread()
             /\ rotated_from' = rotated_from \cup {current_thread}
             /\ UNCHANGED current_thread
          \/ /\ current_thread # 0
             /\ today = current_date
             /\ send_chunks(c, log_buffer, chunks_of(log_buffer), current_thread)
             /\ UNCHANGED <<current_thread, current_date, rotated_from>>

\* StateManager.update_logs(enabled, thread_id, date)
update_logs(enabled, thread_id, date) ==
    /\ state_logs_enabled' = enabled
    /\ state_current_thread_id' = IF thread_id # 0 THEN thread_id ELSE state_current_thread_id
    /\ state_current_date' = IF date # 0 THEN date ELSE state_current_date

\* _on_log_received(log_line): the stream client calls back with a line.
log_received(t) ==
    /\ ws_on
    /\ received < MaxLines
    /\ IF t = <<>> \/ strip_is_empty(t)
       THEN UNCHANGED <<pending, line_text, received>>      \* skipped
       ELSE /\ received' = received + 1
            /\ line_text' = [line_text EXCEPT ![received + 1] = t]
            /\ pending' = Append(pending, received + 1)     \* asyncio.create_task(_add_to_buffer)
    /\ UNCHANGED <<svcVars, flushVars, ctl, stateVars, today, ws_on, threads_created, logHist>>
    /\ UNCHANGED callHist

on_log_received == \E t \in DeliveredTexts : log_received(t)

\* self._log_buffer.append(log_line)
append_line_in_front(i) == log_buffer' = <<i>> \o log_buffer

append_line(i) == log_buffer' = Append(log_buffer, i)

\* The append runs while a flush is between its drain and its return, or while
\* none is.
append_observed ==
    appended_during' = [appended_during EXCEPT ![Head(pending)] =
                           IF \E c \in Flushers : FlushActive(c) THEN flush_no ELSE 0]

\* _add_to_buffer(log_line): the oldest pending task runs.
add_to_buffer ==
    /\ pending # <<>>
    /\ append_line(Head(pending))
    /\ pending' = Tail(pending)
    /\ UNCHANGED <<running, current_thread, current_date, flushVars, ctl, stateVars,
                   today, ws_on, line_text, received, threads_created,
                   posts, flush_no, drained_in, rotated_from>>
    /\ UNCHANGED callHist

\* _flush_loop: asyncio.sleep(batch_seconds) ends and _flush_buffer is entered.
flush_tick ==
    /\ fpc["loop"] = "sleep"
    /\ may_run("loop")
    /\ flush_buffer_enter("loop")
    /\ UNCHANGED <<running, stateVars, today, pending, line_text, received, threads_created,
                   posts>>
    /\ UNCHANGED callHist

\* _flush_buffer: await self._create_daily_thread() ends.
flush_create_return(c) ==
    /\ fpc[c] = "create"
    /\ may_run(c)
    /\ \/ /\ threads_created < MaxThreads         \* the thread was created
          /\ threads_created' = threads_created + 1
          /\ current_thread' = threads_created + 1
          /\ update_logs(TRUE, threads_created + 1, current_date)
          /\ send_chunks(c, flogs[c], chunks_of(flogs[c]), threads_created + 1)
       \/ /\ current_thread' = 0                  \* returned None: return
          /\ flush_return(c)
          /\ UNCHANGED <<threads_created, stateVars>>
    /\ UNCHANGED <<running, log_buffer, current_date, today, pending, line_text, received, logHist>>
    /\ UNCHANGED callHist

\* How thread.send(chunk) can end: it returns, or raises discord.Forbidden, an
\* HTTPException of status 429, an HTTPException of another status, or an
\* exception of neither class.
SendOutcomes == {"sent", "forbidden", "rate_limited", "http_error", "error"}

\* except discord.Forbidden: print(...); break
on_forbidden_next_chunk(c) == next_chunk(c)

on_forbidden(c) == flush_return(c)

\* _flush_buffer: await self._current_thread.send(chunk) ends with the outcome.
send_returns(c, outcome) ==
    /\ fpc[c] = "send"
    /\ may_run(c)
    /\ CASE outcome = "sent" ->
               /\ delivered(c)
               /\ next_chunk(c)
               /\ UNCHANGED stop_ret
         [] outcome = "forbidden" ->
               /\ on_forbidden(c)
               /\ UNCHANGED <<posts, stop_ret>>
         [] outcome = "rate_limited" ->              \* await asyncio.sleep(retry_after)
               /\ flush_suspend(c, "retry_wait", flogs[c], fchunks[c], 0)
               /\ UNCHANGED <<posts, stop_ret>>
         [] outcome = "http_error" ->                \* logged; the loop goes on
               /\ next_chunk(c)
               /\ UNCHANGED <<posts, stop_ret>>
         [] outcome = "error" ->
               /\ flush_raises(c)
               /\ UNCHANGED posts
    /\ UNCHANGED <<svcVars, stateVars, today, pending, line_text, received, threads_created,
                   flush_no, drained_in, rotated_from>>
    /\ UNCHANGED <<start_ret, start_did, start_saw, ws_result>>

flush_send_return(c) == \E outcome \in SendOutcomes : send_returns(c, outcome)

\* _flush_buffer: the wait after a 429 ends and the chunk is sent once more.
flush_retry_wait_return(c) ==
    /\ fpc[c] = "retry_wait"
    /\ may_run(c)
    /\ flush_suspend(c, "retry_send", flogs[c], fchunks[c], current_thread)
    /\ UNCHANGED <<svcVars, stateVars, today, pending, line_text, received, threads_created, logHist>>
    /\ UNCHANGED callHist

\* How the second send of a chunk can end: it returns, or raises an Exception.
RetryOutcomes == {"retry_sent", "retry_failed"}

\* _flush_buffer: the second send of a chunk ends; a failure is swallowed.
retry_returns(c, outcome) ==
    /\ fpc[c] = "retry_send"
    /\ may_run(c)
    /\ IF outcome = "retry_sent" THEN delivered(c) ELSE UNCHANGED posts
    /\ next_chunk(c)
    /\ UNCHANGED <<svcVars, stateVars, today, pending, line_text, received, threads_created,
                   flush_no, drained_in, rotated_from>>
    /\ UNCHANGED callHist

flush_retry_send_return(c) == \E outcome \in RetryOutcomes : retry_returns(c, outcome)

\* What start() has found when it has not been entered.
NothingSeen ==
    [thread_id |-> 0, date |-> 0, today |-> 0, held |-> 0, created |-> 0, after_stop |-> FALSE]

\* if self.state.current_thread_id and self.state.current_date == self._current_date
has_thread_any_date == state_current_thread_id # 0

has_thread_for_today == state_current_thread_id # 0 /\ state_current_date = today

\* start(): from its entry to the await of _get_thread or _create_daily_thread.
start_begin ==
    /\ ctl = "idle"
    /\ ~running                                   \* if self._running: return True
    /\ current_date' = today
    /\ ctl' = IF has_thread_for_today THEN "start_get_thread" ELSE "start_create"
    /\ start_did' = IF has_thread_for_today THEN <<"fetch">> ELSE <<"create">>
    /\ start_saw' = [thread_id |-> state_current_thread_id, date |-> state_current_date,
                     today |-> today, held |-> current_thread, created |-> threads_created,
                     after_stop |-> (stop_ret = "returned" /\ start_ret = "unset")]
    /\ start_ret' = "unset"
    /\ ws_result' = "unset"
    /\ UNCHANGED <<running, log_buffer, current_thread, flushVars, stateVars, envVars, logHist, stop_ret>>

\* start(): _get_thread(state.current_thread_id) ends.
start_get_thread_return ==
    /\ ctl = "start_get_thread"
    /\ \/ /\ current_thread' = state_current_thread_id    \* resumed; await ws_client.start()
          /\ ctl' = "start_ws"
          /\ start_did' = Append(start_did, "fetched")
       \/ /\ ctl' = "start_create"                        \* None: create a new thread
          /\ start_did' = Append(start_did, "create")
          /\ UNCHANGED current_thread
    /\ UNCHANGED <<running, log_buffer, current_date, flushVars, stateVars, envVars, logHist>>
    /\ UNCHANGED <<start_ret, start_saw, ws_result, stop_ret>>

\* if not self._current_thread: return False
create_failed_goes_on ==
    /\ current_thread' = 0
    /\ ctl' = "start_ws"
    /\ UNCHANGED start_ret

create_failed ==
    /\ current_thread' = 0
    /\ ctl' = "idle"
    /\ start_ret' = "False"

\* start(): _create_daily_thread() ends.
start_create_return ==
    /\ ctl = "start_create"
    /\ \/ /\ threads_created < MaxThreads
          /\ threads_created' = threads_created + 1
          /\ current_thread' = threads_created + 1
          /\ ctl' = "start_ws"                            \* await ws_client.start()
          /\ start_did' = Append(start_did, "created")
          /\ UNCHANGED start_ret
          /\ UNCHANGED start_saw
       \/ /\ create_failed
          /\ start_did' = <<>>
          /\ start_saw' = NothingSeen
          /\ UNCHANGED threads_created
    /\ UNCHANGED <<running, log_buffer, current_date, flushVars, stateVars,
                   today, ws_on, pending, line_text, received, logHist>>
    /\ UNCHANGED <<ws_result, stop_ret>>

\* start(): "await ws_client.start()" ends.  Its value is not read: whether the
\* first connect succeeded or the reconnect loop has taken over, the flush task
\* is created, the state saved and True returned.  An exception out of it
\* (connect() authenticates outside its try) makes start() return False.
start_ws_return ==
    /\ ctl = "start_ws"
    /\ \/ /\ ws_result' \in {"connected", "failed"}
          /\ ws_on' = TRUE
          /\ running' = TRUE
          /\ fpc' = [fpc EXCEPT !["loop"] = "sleep"]      \* asyncio.create_task(self._flush_loop())
          /\ update_logs(TRUE, current_thread, current_date)
          /\ start_ret' = "True"
          /\ stop_ret' = "unset"
       \/ /\ ws_result' = "raised"                        \* except Exception: return False
          /\ start_ret' = "False"
          /\ UNCHANGED <<ws_on, running, fpc, stateVars, stop_ret>>
    /\ ctl' = "idle"
    /\ start_did' = <<>>
    /\ start_saw' = NothingSeen
    /\ UNCHANGED <<log_buffer, current_thread, current_date, flogs, fchunks, fthread,
                   today, pending, line_text, received, threads_created, logHist>>

\* stop(): _running = False; self._flush_task.cancel(); await self._flush_task
stop_begin ==
    /\ ctl = "idle"
    /\ running                                    \* callers test is_running
    /\ running' = FALSE
    /\ ctl' = "stop_await_task"
    /\ stop_ret' = "unset"
    /\ start_ret' = "unset"
    /\ ws_result' = "unset"
    /\ UNCHANGED <<start_did, start_saw>>
    /\ UNCHANGED <<log_buffer, current_thread, current_date, flushVars, stateVars, envVars, logHist>>

\* The cancelled flush task gets CancelledError at its await and ends.  A send
\* it was waiting for may or may not have reached the thread.
flush_cancelled ==
    /\ ctl = "stop_await_task"
    /\ fpc["loop"] # "none"
    /\ SetFlush("loop", "none", <<>>, <<>>, 0)
    /\ \/ UNCHANGED posts
       \/ /\ fpc["loop"] \in {"send", "retry_send"}
          /\ delivered("loop")
    /\ UNCHANGED <<svcVars, ctl, stateVars, envVars, flush_no, drained_in, rotated_from>>
    /\ UNCHANGED callHist

stop_skips_final_flush ==
    /\ ctl = "stop_await_task"
    /\ fpc["loop"] = "none"
    /\ ctl' = "stop_disconnect"
    /\ ws_on' = FALSE
    /\ UNCHANGED <<svcVars, flushVars, stateVars, today, pending, line_text, received,
                   threads_created, logHist>>
    /\ UNCHANGED callHist

\* stop(): the flush task has ended; await self._flush_buffer()
stop_final_flush ==
    /\ ctl = "stop_await_task"
    /\ fpc["loop"] = "none"
    /\ flush_buffer_enter("stop")
    /\ UNCHANGED <<running, stateVars, today, pending, line_text, received, threads_created,
                   posts>>
    /\ UNCHANGED callHist

\* stop(): ws_client.disconnect() ends; update_logs(enabled=False)
stop_disconnect_return ==
    /\ ctl = "stop_disconnect"
    /\ update_logs(FALSE, 0, 0)
    /\ ctl' = "idle"
    /\ stop_ret' = "returned"
    /\ UNCHANGED <<svcVars, flushVars, envVars, logHist>>
    /\ UNCHANGED <<start_ret, start_did, start_saw, ws_result>>

\* Midnight in the configured timezone.
next_day ==
    /\ today < MaxDate
    /\ today' = today + 1
    /\ UNCHANGED <<svcVars, flushVars, ctl, stateVars, ws_on, pending, line_text, received,
                   threads_created, logHist>>
    /\ UNCHANGED callHist

\* LogSyncService.__init__, with the state file of a first run.
LogInit ==
    /\ running = FALSE
    /\ log_buffer = <<>>
    /\ current_thread = 0
    /\ current_date = 0
    /\ fpc = [c \in Flushers |-> "none"]
    /\ flogs = [c \in Flushers |-> <<>>]
    /\ fchunks = [c \in Flushers |-> <<>>]
    /\ fthread = [c \in Flushers |-> 0]
    /\ ctl = "idle"
    /\ state_logs_enabled = FALSE
    /\ state_current_thread_id = 0
    /\ state_current_date = 0
    /\ today = 1
    /\ ws_on = FALSE
    /\ pending = <<>>
    /\ line_text = [i \in LineIds |-> <<>>]
    /\ received = 0
    /\ threads_created = 0
    /\ posts = <<>>
    /\ flush_no = 0
    /\ appended_during = [i \in LineIds |-> 0]
    /\ drained_in = [i \in LineIds |-> 0]
    /\ rotated_from = {}
    /\ start_ret = "unset"
    /\ start_did = <<>>
    /\ start_saw = NothingSeen
    /\ ws_result = "unset"
    /\ stop_ret = "unset"
    /\ last_send = NoSend
    /\ last_line = NoLine

(***************************************************************************)
(* Claims about the log pipeline.                                          *)
(***************************************************************************)
\* The delivered posts that hold line i.
PostsOf(i) == {k \in 1..Len(posts) : i \in Range(posts[k][2])}

\* C7: a line appended while a flush is between its drain and its return is
\* not in that flush and is taken by exactly one later drain: at every moment
\* an accepted line is in exactly one place (a pending append, the buffer, or
\* the batch of one drain), and it is delivered at most once.
C7_DrainIsAtomic ==
    \A i \in 1..received :
        /\ Cardinality({k \in 1..Len(pending) : pending[k] = i})
             + Cardinality({k \in 1..Len(log_buffer) : log_buffer[k] = i})
             + (IF drained_in[i] # 0 THEN 1 ELSE 0) = 1
        /\ (drained_in[i] # 0 /\ appended_during[i] # 0) => drained_in[i] > appended_during[i]
        /\ Cardinality(PostsOf(i)) <= 1
        /\ PostsOf(i) # {} => drained_in[i] # 0

\* A line appended during a flush that delivered a post was taken by a later
\* drain and delivered by it.
C7_Witness ==
    \E i, j \in 1..received :
        /\ appended_during[i] # 0
        /\ drained_in[j] = appended_during[i] /\ PostsOf(j) # {}
        /\ drained_in[i] > appended_during[i] /\ PostsOf(i) # {}

\* C8: once a flush has resolved a date different from the stored thread date,
\* no post is delivered to the thread that was current until then.
C8_NoPostToOldThread ==
    [][Len(posts') > Len(posts) => posts'[Len(posts')][1] \notin rotated_from]_vars

\* C14: when the stream client does not start (its first connect does not
\* succeed), start() returns False, does not mark the pipeline running, does
\* not create the flush task and does not persist logs_enabled = True.
C14_FailedStreamStartReturnsFalse ==
    [][(ctl = "start_ws" /\ ctl' = "idle" /\ ws_result' # "connected")
         => /\ start_ret' = "False"
            /\ ~running'
            /\ fpc'["loop"] = "none"
            /\ state_logs_enabled' = state_logs_enabled]_vars

\* C15: when start() ends up without a thread (the creation failed, after a
\* failed resume or without one), it returns False and the pipeline is not
\* running: the stream client has not been started, no flush task exists and
\* the state has not been written.  The stream client is only ever started
\* with a thread in hand.
C15_NoThreadNoStart ==
    [][/\ (ctl = "start_create" /\ ctl' # ctl /\ current_thread' = 0)
          => /\ ctl' = "idle"
             /\ start_ret' = "False"
             /\ ~running'
             /\ fpc'["loop"] = "none"
             /\ ws_result' = "unset" /\ ws_on' = ws_on
             /\ UNCHANGED stateVars
       /\ ctl' = "start_ws" => current_thread' # 0]_vars

\* A start() whose resume failed and whose creation failed has returned False.
C15_Witness ==
    /\ ctl = "idle"
    /\ start_ret = "False"
    /\ ws_result = "unset"
    /\ current_thread = 0
    /\ state_current_thread_id # 0 /\ state_current_date = current_date
    /\ ~running /\ fpc["loop"] = "none"

\* stop() has returned and start() has not succeeded since.
PipelineStopped == stop_ret = "returned" /\ ctl = "idle" /\ ~running

C24_FailedRotationLosesOneTick ==
    [][/\ \A c \in Flushers :
            (fpc[c] = "create" /\ fpc'[c] # "create" /\ current_thread' = 0)
               => (posts' = posts /\ flogs'[c] = <<>>)
       /\ (flush_no' = flush_no + 1 /\ current_thread = 0)
            => \E c \in Flushers : fpc'[c] = "create"]_vars

\* start() is between its entry and its return.
InStart == ctl \in {"start_get_thread", "start_create", "start_ws"}

\* C25: outside start() (which resolves the date on entry and persists on its
\* way out), _current_date changes only in the step in which a rotation has
\* created its thread, and then to the local date: a failed rotation leaves
\* it.  Whenever the held (thread, date) changes, the state file holds that
\* same pair after the step.
C25_DateFollowsEstablishedThread ==
    [][(~InStart /\ ~InStart')
         => /\ current_date' # current_date
                 => /\ current_thread' # 0
                    /\ current_date' = today
                    /\ \E c \in Flushers : fpc[c] = "create" /\ fpc'[c] # "create"
            /\ <<current_thread, current_date>>' # <<current_thread, current_date>>
                 => /\ state_current_thread_id' = current_thread'
                    /\ state_current_date' = current_date']_vars

\* The flush has moved on from the chunk it attempted: to the next chunk of the same
\* flush, or to its end when that chunk was the last.
MovedOn(c) ==
    IF Tail(fchunks[c]) = <<>>
    THEN fchunks'[c] = <<>> /\ fpc'[c] \in {"sleep", "none"}
    ELSE fchunks'[c] = Tail(fchunks[c]) /\ fpc'[c] = "send"

\* The chunk the flush attempted is the post added to the thread.
Posted(c) ==
    posts' = Append(posts, <<fthread[c], SubSeq(flogs[c], 1, LinesIn(Head(fchunks[c])))>>)

\* stop() has cancelled the flush task, which ends at the await it was suspended in.
CancelledAtAwait(c) == c = "loop" /\ ctl = "stop_await_task" /\ fpc'[c] = "none"

\* C26: within one flush the chunks are attempted in order and each at most twice.
\* A sent chunk is posted and the flush moves on; Forbidden ends the flush with
\* no later chunk attempted; a rate-limited send is followed by one wait and one
\* more send of the same chunk, after which the flush moves on whether or not
\* that send delivered; another HTTP failure posts nothing and the flush moves
\* on.  A wait begins only after a rate-limited send and a retry only after a
\* wait.
C26_SendResultsHandledPerChunk ==
    [][\A c \in Flushers :
         /\ last_send' = <<c, "sent">> => (fpc[c] = "send" /\ Posted(c) /\ MovedOn(c))
         /\ last_send' = <<c, "forbidden">>
              => (posts' = posts /\ fchunks'[c] = <<>> /\ fpc'[c] \in {"sleep", "none"})
         /\ last_send' = <<c, "rate_limited">>
              => (posts' = posts /\ fpc'[c] = "retry_wait" /\ fchunks'[c] = fchunks[c])
         /\ last_send' = <<c, "http_error">> => (posts' = posts /\ MovedOn(c))
         /\ (fpc[c] = "retry_wait" /\ fpc'[c] # "retry_wait")
              => \/ fpc'[c] = "retry_send" /\ fchunks'[c] = fchunks[c] /\ posts' = posts
                 \/ CancelledAtAwait(c)
         /\ last_send' = <<c, "retry_sent">>
              => (fpc[c] = "retry_send" /\ Posted(c) /\ MovedOn(c))
         /\ last_send' = <<c, "retry_failed">>
              => (fpc[c] = "retry_send" /\ posts' = posts /\ MovedOn(c))
         /\ (fpc[c] # "retry_wait" /\ fpc'[c] = "retry_wait")
              => (fpc[c] = "send" /\ last_send' = <<c, "rate_limited">>)
         /\ (fpc[c] # "retry_send" /\ fpc'[c] = "retry_send") => fpc[c] = "retry_wait"
         /\ (fchunks[c] # <<>> /\ fchunks'[c] # fchunks[c])
              => fchunks'[c] \in {<<>>, Tail(fchunks[c])}]_vars

\* The second send of a chunk failed and the flush has gone on to its next chunk.
C26_Witness ==
    /\ last_send = <<"loop", "retry_failed">>
    /\ fpc["loop"] = "send"
    /\ fchunks["loop"] # <<>>

\* The text has a character that is not whitespace.
HasText(t) == \E i \in 1..Len(t) : t[i] \notin {Blank, NL}

\* The line numbers go up along the sequence.
Increasing(seq) == \A i, j \in 1..Len(seq) : i < j => seq[i] < seq[j]

\* C32: the callback accepts a text exactly when it has a character that is not
\* whitespace, and then queues it behind the lines accepted before; a queued
\* line leaves the queue only by being appended to the end of the buffer; the
\* buffer changes only by such an append or by the drain of a flush, which
\* takes all of it; buffer and queue hold the lines in the order of the calls.
C32_NonBlankLinesAppendedInOrder ==
    [][/\ last_line' # NoLine
            => IF HasText(last_line')
               THEN /\ received' = received + 1
                    /\ line_text'[received'] = last_line'
                    /\ pending' = Append(pending, received')
                    /\ log_buffer' = log_buffer
               ELSE received' = received /\ pending' = pending /\ log_buffer' = log_buffer
       /\ pending' # pending
            => \/ last_line' # NoLine /\ pending' = Append(pending, received')
               \/ /\ pending # <<>>
                  /\ pending' = Tail(pending)
                  /\ log_buffer' = Append(log_buffer, Head(pending))
       /\ log_buffer' # log_buffer
            => \/ /\ pending # <<>>
                  /\ pending' = Tail(pending)
                  /\ log_buffer' = Append(log_buffer, Head(pending))
               \/ /\ log_buffer' = <<>>
                  /\ flush_no' = flush_no + 1
                  /\ \A i \in Range(log_buffer) : drained_in'[i] = flush_no'
       /\ Increasing(log_buffer' \o pending')]_vars

\* A text with whitespace in front has just been accepted and is queued behind
\* a line that is in the buffer.
C32_Witness ==
    /\ last_line = <<Blank, "a">>
    /\ pending = <<received>>
    /\ line_text[received] = <<Blank, "a">>
    /\ log_buffer # <<>>

\* The line numbers of all delivered posts, in the order of delivery.
RECURSIVE PostedLines(_)
\* The lines a flush has drained and has not yet tried to send: all of them
\* while it creates the day's thread, those after the chunk in hand while it
\* sends.
Unattempted(c) ==
    IF fpc[c] \in {"send", "retry_send", "retry_wait"}
    THEN SubSeq(flogs[c], LinesIn(Head(fchunks[c])) + 1, Len(flogs[c]))
    ELSE flogs[c]

\* C38: when stop() cancels the flush task, every line that the interrupted
\* flush had drained has been tried for posting; none is dropped with the
\* cancelled task.
C38_CancelledFlushLosesNoLine ==
    [][(ctl = "stop_await_task" /\ fpc["loop"] # "none" /\ fpc'["loop"] = "none")
         => Unattempted("loop") = <<>>]_vars

PostedLines(k) == IF k = 0 THEN <<>> ELSE PostedLines(k - 1) \o posts[k][2]

\* C27: lines are posted in the order in which the callback received them:
\* over all delivered posts, of periodic flushes and of stop()'s final flush,
\* the line numbers only go up.
C27_PostedInReceiveOrder ==
    LET seq == PostedLines(Len(posts))
    IN  \A i, j \in 1..Len(seq) : i < j => seq[i] < seq[j]

\* Two lines were posted by two flushes, the later one by stop()'s final flush.
C27_Witness ==
    /\ PipelineStopped
    /\ Len(posts) >= 2
    /\ posts[1][2][1] < posts[Len(posts)][2][1]
    /\ drained_in[posts[1][2][1]] < drained_in[posts[Len(posts)][2][1]]

\* C20: start() reuses the persisted thread, creating none, exactly when the
\* state holds a thread id, the persisted date is today's date and the fetch of
\* that thread succeeds; in every other case it calls the thread creation
\* exactly once.  A start() right after a stop(), on the date persisted with
\* the thread, finds the thread that the pipeline held and resumes it.
C20_ResumeExactlyWhenPersistedToday ==
    LET resumable == start_saw.thread_id # 0 /\ start_saw.date = start_saw.today
        reused == start_did = <<"fetch", "fetched">>
        settled == ctl = "start_ws"
    IN  start_did # <<>> =>
          /\ start_did[1] = "fetch" <=> resumable
          /\ start_did \in {<<"fetch">>, <<"fetch", "fetched">>, <<"fetch", "create">>,
                            <<"fetch", "create", "created">>, <<"create">>,
                            <<"create", "created">>}
          /\ settled => (reused <=> "create" \notin Range(start_did))
          /\ (ctl = "start_ws" /\ reused)
               => current_thread = start_saw.thread_id /\ threads_created = start_saw.created
          /\ (ctl = "start_ws" /\ ~reused)
               => current_thread = start_saw.created + 1 /\ threads_created = start_saw.created + 1
          /\ (start_saw.after_stop /\ resumable)
               => start_saw.thread_id = start_saw.held

\* After a stop(), a start() on the persisted date has resumed the thread that
\* the pipeline was posting into.
C20_Witness ==
    /\ ctl = "start_ws"
    /\ start_saw.after_stop
    /\ start_did = <<"fetch", "fetched">>
    /\ current_thread = start_saw.held
    /\ \E k \in 1..Len(posts) : posts[k][1] = current_thread

(***************************************************************************)
(* WebSocketLogClient (services/websocket_client.py).  One client object:  *)
(* LogSyncService.start() makes a new one each time it starts the stream   *)
(* and calls start() on it once; disconnect() is called on it after        *)
(* start() has returned.                                                   *)
(*                                                                         *)
(* A task made by asyncio.create_task is shown at its first await: the     *)
(* stretch before it reads what its creator left and writes nothing.       *)
(***************************************************************************)
InitialDelay == 1               \* self._reconnect_delay = 1.0
max_reconnect_delay == 60       \* self._max_reconnect_delay = 60.0

Min(a, b) == IF a <= b THEN a ELSE b

\* What a message from the socket can be: a console envelope with text, one
\* with empty data, a "logs" batch of one entry, a status update, an error
\* envelope, text that is not JSON, JSON that is not an object.
MsgKinds == {"console", "console_empty", "logs", "status", "error", "raw", "nonobject"}

WsInit ==
    /\ ws_running = FALSE
    /\ ws_connected = FALSE
    /\ websocket = "none"
    /\ reconnect_delay = InitialDelay
    /\ receive_task = "none"
    /\ reconnect_task = "none"
    /\ connect_pc = "none"
    /\ ws_caller = "init"
    /\ msgs = 0
    /\ console_in = 0
    /\ console_cb = <<>>
    /\ callbacks = 0
    /\ waited = <<>>
    /\ prev_fails = 0
    /\ cancelled = {}
    /\ last_kind = "none"
    /\ handshake = "none"

WsIdle == WsInit /\ token_valid = TRUE

\* A task that disconnect() has cancelled gets CancelledError when it next
\* runs: it takes no other step.
rx_may_run == ws_caller # "disc_rx"
rc_may_run == ws_caller # "disc_rc"
connect_may_run == ws_caller = "start_connect" \/ rc_may_run

\* The model lets at most MaxFails - 1 attempts of one reconnect loop fail.
can_fail == ws_caller = "start_connect" \/ Len(waited) < MaxFails

\* connect() from its entry to its first await: the token is read.
connect_enter == connect_pc' = IF token_valid THEN "dial" ELSE "auth"

\* self._reconnect_delay = 1.0
backoff_keep == UNCHANGED reconnect_delay

backoff_reset == reconnect_delay' = InitialDelay

\* self._reconnect_delay = min(self._reconnect_delay * 2, self._max_reconnect_delay)
backoff_uncapped == reconnect_delay' = reconnect_delay * 2

backoff_double == reconnect_delay' = Min(reconnect_delay * 2, max_reconnect_delay)

\* connect() returns to start() or to _reconnect_loop, which go on to their
\* next await or their end.
connect_returns(success) ==
    /\ connect_pc' = "none"
    /\ IF ws_caller = "start_connect"
       THEN /\ ws_caller' = "started"
            /\ IF success
               THEN receive_task' = "recv" /\ UNCHANGED reconnect_task
               ELSE reconnect_task' = "sleep" /\ UNCHANGED receive_task
            /\ UNCHANGED <<reconnect_delay, waited, prev_fails>>
       ELSE /\ UNCHANGED ws_caller
            /\ IF success
               THEN /\ backoff_reset
                    /\ receive_task' = "recv"
                    /\ reconnect_task' = "done"
                    /\ prev_fails' = Len(waited) - 1
                    /\ waited' = <<>>
               ELSE /\ backoff_double
                    \* while self._running and not self._connected
                    /\ reconnect_task' = IF ws_running /\ ~ws_connected THEN "sleep" ELSE "done"
                    /\ UNCHANGED <<receive_task, waited, prev_fails>>

\* connect() raises: start() raises to its caller, the reconnect task ends.
connect_raises ==
    /\ connect_pc' = "none"
    /\ IF ws_caller = "start_connect"
       THEN ws_caller' = "start_raised" /\ UNCHANGED reconnect_task
       ELSE reconnect_task' = "done" /\ UNCHANGED ws_caller
    /\ UNCHANGED <<receive_task, reconnect_delay, waited, prev_fails>>

\* start()
ws_start ==
    /\ ws_caller = "init"
    /\ ws_running' = TRUE
    /\ backoff_reset
    /\ connect_enter
    /\ ws_caller' = "start_connect"
    /\ UNCHANGED <<ws_connected, websocket, receive_task, reconnect_task, token_valid, wsHist>>

\* connect(): await client.authenticate() ends.
connect_auth_return ==
    /\ connect_pc = "auth"
    /\ connect_may_run
    /\ \/ /\ connect_raises                     \* AuthenticationError: not caught
          /\ UNCHANGED token_valid
       \/ /\ token_valid' = TRUE                \* a fresh token: websockets.connect
          /\ connect_pc' = "dial"
          /\ UNCHANGED <<ws_caller, receive_task, reconnect_task, reconnect_delay, waited, prev_fails>>
       \/ /\ can_fail                           \* a token already expired: return False
          /\ connect_returns(FALSE)
          /\ UNCHANGED token_valid
    /\ UNCHANGED <<ws_running, ws_connected, websocket, msgs, console_in, console_cb,
                   callbacks, cancelled>>
    /\ UNCHANGED msgHist

\* connect(): await websockets.connect(...) ends.
connect_dial_return ==
    /\ connect_pc = "dial"
    /\ connect_may_run
    /\ \/ /\ websocket' = "open"                \* await asyncio.wait_for(recv(), 10.0)
          /\ connect_pc' = "hello"
          /\ UNCHANGED <<ws_caller, receive_task, reconnect_task, reconnect_delay, waited, prev_fails>>
       \/ /\ can_fail                           \* timeout, WebSocketException, other: return False
          /\ connect_returns(FALSE)
          /\ UNCHANGED websocket
    /\ UNCHANGED <<ws_running, ws_connected, token_valid, msgs, console_in, console_cb,
                   callbacks, cancelled>>
    /\ UNCHANGED msgHist

\* connect(): the wait for the first message ends.
connect_hello_return ==
    /\ connect_pc = "hello"
    /\ connect_may_run
    /\ \/ /\ ws_connected' = TRUE               \* asyncio.TimeoutError: no message in 10 s
          /\ connect_returns(TRUE)
          /\ handshake' = "timeout"
          /\ UNCHANGED <<websocket, msgs, console_in>>
       \/ /\ msgs < MaxMsgs                     \* a message: json.loads, its type printed
          /\ \E kind \in MsgKinds :
                /\ msgs' = msgs + 1
                /\ handshake' = kind
                /\ console_in' = IF kind = "console" THEN console_in + 1 ELSE console_in
                /\ IF kind = "error"
                   THEN /\ can_fail             \* await self._websocket.close()
                        /\ connect_pc' = "close"
                        /\ UNCHANGED <<ws_connected, ws_caller, receive_task, reconnect_task,
                                       reconnect_delay, waited, prev_fails>>
                   ELSE IF kind = "nonobject"
                   THEN /\ can_fail             \* AttributeError: except Exception: return False
                        /\ connect_returns(FALSE)
                        /\ UNCHANGED ws_connected
                   ELSE /\ ws_connected' = TRUE
                        /\ connect_returns(TRUE)
          /\ UNCHANGED websocket
       \/ /\ can_fail                           \* recv raises ConnectionClosed: return False
          /\ websocket' = "closed"
          /\ connect_returns(FALSE)
          /\ handshake' = "closed"
          /\ UNCHANGED <<ws_connected, msgs, console_in>>
    /\ UNCHANGED <<ws_running, token_valid, console_cb, callbacks, cancelled, last_kind>>

\* connect(): await self._websocket.close() after an error envelope ends.
connect_close_return ==
    /\ connect_pc = "close"
    /\ connect_may_run
    /\ websocket' = "closed"
    /\ connect_returns(FALSE)
    /\ UNCHANGED <<ws_running, ws_connected, token_valid, msgs, console_in, console_cb,
                   callbacks, cancelled>>
    /\ UNCHANGED msgHist

\* _process_message(message_raw) for a message that does not make it raise.
process_message(kind) ==
    /\ console_in' = IF kind = "console" THEN console_in + 1 ELSE console_in
    /\ console_cb' = IF kind = "console" THEN Append(console_cb, console_in + 1) ELSE console_cb
    /\ callbacks' = IF kind \in {"console", "logs", "raw"} THEN callbacks + 1 ELSE callbacks

\* while self._running and self._websocket
receive_loop_again == IF ws_running /\ websocket # "none" THEN "recv" ELSE "done"

\* _receive_loop: await self._websocket.recv() ends.
receive_recv_return ==
    /\ receive_task = "recv"
    /\ rx_may_run
    /\ \/ /\ msgs < MaxMsgs                     \* a message
          /\ msgs' = msgs + 1
          /\ \E kind \in MsgKinds :
                /\ last_kind' = kind
                /\ IF kind = "nonobject"
                   THEN /\ UNCHANGED <<console_in, console_cb, callbacks>>   \* except Exception
                        /\ receive_task' = IF ws_running THEN "sleep" ELSE "done"
                   ELSE /\ process_message(kind)
                        /\ receive_task' = receive_loop_again
          /\ UNCHANGED <<ws_connected, websocket, reconnect_task>>
       \/ /\ ws_connected' = FALSE              \* ConnectionClosed
          /\ websocket' = "closed"
          /\ reconnect_task' = IF ws_running THEN "sleep" ELSE reconnect_task
          /\ receive_task' = "done"
          /\ UNCHANGED <<msgs, console_in, console_cb, callbacks, last_kind>>
       \/ /\ receive_task' = IF ws_running THEN "sleep" ELSE "done"      \* another exception
          /\ UNCHANGED <<ws_connected, websocket, reconnect_task, msgs, console_in,
                         console_cb, callbacks, last_kind>>
    /\ UNCHANGED <<ws_running, reconnect_delay, connect_pc, ws_caller, token_valid,
                   waited, prev_fails, cancelled, handshake>>

\* _receive_loop: await asyncio.sleep(1) after a receive error ends.
receive_sleep_return ==
    /\ receive_task = "sleep"
    /\ rx_may_run
    /\ receive_task' = receive_loop_again
    /\ UNCHANGED <<ws_running, ws_connected, websocket, reconnect_delay, reconnect_task,
                   connect_pc, ws_caller, token_valid, wsHist>>

\* _reconnect_loop: await asyncio.sleep(self._reconnect_delay) ends.
reconnect_sleep_return ==
    /\ reconnect_task = "sleep"
    /\ rc_may_run
    /\ waited' = Append(waited, reconnect_delay)
    /\ IF ~ws_running
       THEN reconnect_task' = "done" /\ UNCHANGED connect_pc        \* break
       ELSE reconnect_task' = "connect" /\ connect_enter            \* await self.connect()
    /\ UNCHANGED <<ws_running, ws_connected, websocket, reconnect_delay, receive_task,
                   ws_caller, token_valid, msgs, console_in, console_cb, callbacks,
                   prev_fails, cancelled>>
    /\ UNCHANGED msgHist

\* disconnect(): from "if self._websocket" on.
disconnect_close_part ==
    /\ ws_caller' = IF websocket # "none" THEN "disc_close"         \* await self._websocket.close()
                    ELSE IF ws_caller = "stopped" THEN "stopped_again" ELSE "stopped"
    /\ UNCHANGED websocket

\* disconnect(): from "if self._reconnect_task" on.
disconnect_keeps_reconnect_task ==
    /\ UNCHANGED <<reconnect_task, cancelled>>
    /\ disconnect_close_part

disconnect_reconnect_part ==
    IF reconnect_task \in {"none", "done"}
    THEN /\ reconnect_task' = "none"
         /\ UNCHANGED cancelled
         /\ disconnect_close_part
    ELSE /\ ws_caller' = "disc_rc"              \* cancel(); await self._reconnect_task
         /\ cancelled' = cancelled \cup {"reconnect"}
         /\ UNCHANGED <<reconnect_task, websocket>>

\* disconnect(): from "if self._receive_task" on.
disconnect_receive_part ==
    IF receive_task \in {"none", "done"}
    THEN /\ receive_task' = "none"
         /\ disconnect_reconnect_part
    ELSE /\ ws_caller' = "disc_rx"              \* cancel(); await self._receive_task
         /\ cancelled' = cancelled \cup {"receive"}
         /\ UNCHANGED <<receive_task, reconnect_task, websocket>>

\* disconnect(), called after start() returned, or once more after it returned.
disconnect_begin ==
    /\ ws_caller \in {"started", "stopped"}
    /\ ws_running' = FALSE
    /\ ws_connected' = FALSE
    /\ disconnect_receive_part
    /\ UNCHANGED <<reconnect_delay, connect_pc, token_valid, msgs, console_in, console_cb,
                   callbacks, waited, prev_fails>>
    /\ UNCHANGED msgHist

\* The cancelled receive task gets CancelledError at its await and ends.
receive_cancelled ==
    /\ ws_caller = "disc_rx"
    /\ receive_task \in {"recv", "sleep"}
    /\ receive_task' = "done"
    /\ UNCHANGED <<ws_running, ws_connected, websocket, reconnect_delay, reconnect_task,
                   connect_pc, ws_caller, token_valid, wsHist>>

\* disconnect(): await self._receive_task ends.
disconnect_after_receive ==
    /\ ws_caller = "disc_rx"
    /\ receive_task = "done"
    /\ receive_task' = "none"
    /\ disconnect_reconnect_part
    /\ UNCHANGED <<ws_running, ws_connected, reconnect_delay, connect_pc, token_valid,
                   msgs, console_in, console_cb, callbacks, waited, prev_fails>>
    /\ UNCHANGED msgHist

\* The cancelled reconnect task gets CancelledError at its await (the sleep or
\* one inside connect()) and ends.
reconnect_cancelled ==
    /\ ws_caller = "disc_rc"
    /\ reconnect_task \in {"sleep", "connect"}
    /\ reconnect_task' = "done"
    /\ connect_pc' = "none"
    /\ UNCHANGED <<ws_running, ws_connected, websocket, reconnect_delay, receive_task,
                   ws_caller, token_valid, wsHist>>

\* disconnect(): await self._reconnect_task ends.
disconnect_after_reconnect ==
    /\ ws_caller = "disc_rc"
    /\ reconnect_task = "done"
    /\ reconnect_task' = "none"
    /\ disconnect_close_part
    /\ UNCHANGED <<ws_running, ws_connected, reconnect_delay, receive_task, connect_pc,
                   token_valid, wsHist>>

\* disconnect(): await self._websocket.close() ends; self._websocket = None.
disconnect_close_return ==
    /\ ws_caller = "disc_close"
    /\ websocket' = "none"
    /\ ws_caller' = "stopped"
    /\ UNCHANGED <<ws_running, ws_connected, reconnect_delay, receive_task, reconnect_task,
                   connect_pc, token_valid, wsHist>>

\* The OAuth2 token passes its expiry (TokenInfo.is_expired).
token_expire ==
    /\ token_valid
    /\ token_valid' = FALSE
    /\ UNCHANGED <<wsState, ws_caller, wsHist>>

(***************************************************************************)
(* Claims about the stream client.                                         *)
(***************************************************************************)
\* C11: the delays the reconnect loop has slept since the last successful
\* connect (or since start) are 1, 2, 4, ... seconds, doubling and capped at
\* 60; after a successful connect the sequence begins again at 1.
C11_BackoffSequence ==
    \A k \in 1..Len(waited) : waited[k] = Min(2 ^ (k - 1), max_reconnect_delay)

\* A reconnect loop that follows a successful reconnect after failures has
\* reached the cap.
C11_Witness ==
    /\ prev_fails > 0
    /\ Len(waited) = MaxFails
    /\ waited[Len(waited)] = max_reconnect_delay
    /\ waited[1] = InitialDelay

\* C12: every console envelope with text that the socket has delivered, the
\* first message after the connection opened included, has caused one
\* invocation of the log callback with its text, in order.
C12_ConsoleReachesCallback ==
    console_cb = [i \in 1..console_in |-> i]

Stopped == ws_caller \in {"stopped", "stopped_again"}

C17_ReconnectEventuallyConnects ==
    (ws_caller = "started" /\ ws_running /\ ~ws_connected)
        ~> (ws_connected \/ ws_caller # "started")

\* C21: while connected, a message that is no envelope (text that is not JSON,
\* or JSON that is not an object) is passed to the log callback as a raw line,
\* and the receive loop goes on to its next recv() with no delay and the
\* connection kept.
C21_NonEnvelopeIsRawLine ==
    [][(receive_task = "recv" /\ connect_pc = "none" /\ msgs' = msgs + 1
          /\ last_kind' \in {"raw", "nonobject"})
         => /\ callbacks' = callbacks + 1
            /\ receive_task' = "recv"
            /\ ws_connected' /\ websocket' = "open"]_vars

\* C22: with the socket opened, a connect attempt whose wait for the first
\* message ends by the timeout or by a message fails exactly when that message
\* is an envelope of type "error"; otherwise the client is connected and its
\* receive loop started.
C22_HandshakeFailsOnlyOnError ==
    [][(connect_pc = "hello" /\ connect_pc' # "hello" /\ ws_caller # "disc_rc"
          /\ handshake' # "closed")
         => /\ ws_connected' <=> handshake' # "error"
            /\ ws_connected' => receive_task' = "recv"]_vars

ReceiveActive == receive_task \in {"recv", "sleep"}
ReconnectActive == reconnect_task \in {"sleep", "connect"}

\* The two loops are never alive together, the reconnect loop is alive only
\* while the client is not connected, and the receive loop starts only with a
\* connect that has just succeeded.
LoopsExclusive ==
    [][/\ ~(ReceiveActive' /\ ReconnectActive')
       /\ ReconnectActive' => ~ws_connected'
       /\ (~ReceiveActive /\ ReceiveActive') => (~ws_connected /\ ws_connected')]_vars

\* C30: at most one of the receive loop and the reconnect loop is alive; the
\* reconnect loop is alive only while the client is not connected, the receive
\* loop only after a successful connect; and a loop that ends while the client
\* is still running has started the other one in that step.
C30_LoopsAlternate ==
    [][/\ ~(ReceiveActive' /\ ReconnectActive')
       /\ ReconnectActive' => ~ws_connected'
       /\ (~ReceiveActive /\ ReceiveActive') => (~ws_connected /\ ws_connected')
       /\ (ReceiveActive /\ ~ReceiveActive' /\ ws_running') => ReconnectActive'
       /\ (ReconnectActive /\ ~ReconnectActive' /\ ws_running') => ReceiveActive']_vars

\* C31: start() ends by returning, never by raising; it has launched the
\* receive loop and only it when the connect succeeded, the reconnect loop and
\* only it when the connect failed, whatever made it fail.
C31_StartReturnsBoolean ==
    [][(ws_caller = "start_connect" /\ ws_caller' # "start_connect")
         => /\ ws_caller' = "started"
            /\ ws_connected' => (receive_task' = "recv" /\ reconnect_task' = "none")
            /\ ~ws_connected' => (reconnect_task' = "sleep" /\ receive_task' = "none")]_vars

(***************************************************************************)
(* The content of the stream's messages (services/websocket_client.py      *)
(* 199-247).  A JSON value is a record of one shape: its kind, its text if *)
(* it is a string, its members under the probed keys if it is an object,   *)
(* its elements if it is an array.                                         *)
(***************************************************************************)
\* for key in ("message", "msg", "log", "line", "text", "data")
Keys == <<"message", "msg", "log", "line", "text", "data">>

KeySet == {Keys[i] : i \in 1..Len(Keys)}

\* A member of an object under one key: not there, there with a value that is
\* no string, or there with a string.
NoMember == [present |-> FALSE, is_str |-> FALSE, text |-> ""]
NonStringMember == [present |-> TRUE, is_str |-> FALSE, text |-> ""]
StringMember(s) == [present |-> TRUE, is_str |-> TRUE, text |-> s]

NoMembers == [k \in KeySet |-> NoMember]

StringValue(s) == [kind |-> "str", text |-> s, members |-> NoMembers, items |-> <<>>]
ObjectValue(d) == [kind |-> "obj", text |-> "", members |-> d, items |-> <<>>]
ListValue(seq) == [kind |-> "list", text |-> "", members |-> NoMembers, items |-> seq]
NullValue == [kind |-> "null", text |-> "", members |-> NoMembers, items |-> <<>>]
NumberValue == [kind |-> "num", text |-> "", members |-> NoMembers, items |-> <<>>]
\* The key is not in the envelope.
Missing == [kind |-> "missing", text |-> "", members |-> NoMembers, items |-> <<>>]

\* A log line: a string taken from the message (via "value"), json.dumps of an
\* object (via "dumps"), str() of another value (via "str"), or the raw text of
\* the message (via "raw").  json.dumps and str never give the empty string.
ValueLine(s) == [via |-> "value", text |-> s, of |-> NullValue]
DumpsLine(data) == [via |-> "dumps", text |-> "", of |-> data]
StrLine(data) == [via |-> "str", text |-> "", of |-> data]
RawLine == [via |-> "raw", text |-> "", of |-> NullValue]

\* if log_line
Truthy(log_line) == ~(log_line.via = "value" /\ log_line.text = "")

\* _extract_log_line, the loop over the keys from the i-th on.
RECURSIVE probe_skipping_empty(_, _)
probe_skipping_empty(data, i) ==
    IF i > Len(Keys)
    THEN DumpsLine(data)
    ELSE LET member == data.members[Keys[i]]
         IN IF member.present /\ member.is_str /\ member.text # ""
            THEN ValueLine(member.text)
            ELSE probe_skipping_empty(data, i + 1)

RECURSIVE probe(_, _)
probe(data, i) ==
    IF i > Len(Keys)
    THEN DumpsLine(data)                        \* return json.dumps(data)
    ELSE LET member == data.members[Keys[i]]
         IN IF member.present /\ member.is_str  \* key in data and isinstance(data[key], str)
            THEN ValueLine(member.text)
            ELSE probe(data, i + 1)

\* _extract_log_line(data)
extract_log_line(data) ==
    IF data.kind = "str" THEN ValueLine(data.text)
    ELSE IF data.kind = "obj" THEN probe(data, 1)
    ELSE IF data.kind = "null" THEN ValueLine("")
    ELSE StrLine(data)

\* for entry in logs: the calls of the callback from the i-th entry on, after
\* the calls in called.
RECURSIVE logs_loop_until_empty(_, _, _)
logs_loop_until_empty(logs, i, called) ==
    IF i > Len(logs)
    THEN called
    ELSE LET log_line == extract_log_line(logs[i])
         IN IF Truthy(log_line)
            THEN logs_loop_until_empty(logs, i + 1, Append(called, log_line))
            ELSE called

RECURSIVE logs_loop(_, _, _)
logs_loop(logs, i, called) ==
    IF i > Len(logs)
    THEN called
    ELSE LET log_line == extract_log_line(logs[i])
         IN logs_loop(logs, i + 1, IF Truthy(log_line) THEN Append(called, log_line) ELSE called)

\* message.get(key, default)
Get(value, default) == IF value.kind = "missing" THEN default ELSE value

\* _process_message(message_raw) for a message that is a JSON object or is not
\* JSON: the lines the callback is invoked with, in order.
callback_lines(m) ==
    IF m.shape = "nonjson" THEN <<RawLine>>     \* except json.JSONDecodeError
    ELSE IF m.type = "console"
    THEN LET log_line == extract_log_line(Get(m.data, StringValue("")))
         IN IF Truthy(log_line) THEN <<log_line>> ELSE <<>>
    ELSE IF m.type = "logs"
    THEN LET logs == Get(m.logs, Get(m.data, ListValue(<<>>)))
         IN IF logs.kind = "list" THEN logs_loop(logs.items, 1, <<>>) ELSE <<>>
    ELSE <<>>                                   \* "status", "error", any other type

Envelope(type, data, logs) == [shape |-> "object", type |-> type, data |-> data, logs |-> logs]
NonJson == [shape |-> "nonjson", type |-> "", data |-> Missing, logs |-> Missing]
NonObject == [shape |-> "nonobject", type |-> "", data |-> Missing, logs |-> Missing]
NoMessage == [shape |-> "none", type |-> "", data |-> Missing, logs |-> Missing]

\* The objects an entry can be: under each probed key no member, a member that
\* is no string, the empty string, or a text (the key's own name).
Objects ==
    {ObjectValue([k \in KeySet |-> IF c[k] = "text" THEN StringMember(k)
                                    ELSE IF c[k] = "empty" THEN StringMember("")
                                    ELSE IF c[k] = "other" THEN NonStringMember
                                    ELSE NoMember]) :
        c \in [KeySet -> {"none", "other", "empty", "text"}]}

\* What the data of a console envelope can be.
Entries == {StringValue(""), StringValue("a"), NullValue, NumberValue, Missing} \cup Objects

ConsoleMessages == {Envelope("console", data, Missing) : data \in Entries}

\* The entries of a batch: a text, the empty text, null, an object with a text
\* under "msg".
BatchEntries ==
    {StringValue("a"), StringValue(""), NullValue,
     ObjectValue([NoMembers EXCEPT !["message"] = NonStringMember, !["msg"] = StringMember("b")])}

Batches == UNION {[1..n -> BatchEntries] : n \in 0..MaxEntries}

BatchMessages ==
    {Envelope("logs", ListValue(logs), Missing) : logs \in Batches}
    \cup {Envelope("logs", Missing, ListValue(logs)) : logs \in Batches}
    \cup {Envelope("logs", StringValue("a"), Missing), Envelope("logs", Missing, Missing),
          Envelope("status", StringValue("a"), Missing),
          Envelope("error", StringValue("a"), Missing),
          Envelope("console", StringValue("a"), Missing), NonJson, NonObject}

\* No message has been received.
RxInit ==
    /\ message = NoMessage
    /\ called_with = <<>>
    /\ rx_count = 0

\* The client after start() has returned True: connected, its receive loop
\* waiting in recv().
WsConnected ==
    /\ ws_running = TRUE
    /\ ws_connected = TRUE
    /\ websocket = "open"
    /\ reconnect_delay = InitialDelay
    /\ receive_task = "recv"
    /\ reconnect_task = "none"
    /\ connect_pc = "none"
    /\ ws_caller = "started"
    /\ token_valid = TRUE
    /\ msgs = 0
    /\ console_in = 0
    /\ console_cb = <<>>
    /\ callbacks = 0
    /\ waited = <<>>
    /\ prev_fails = 0
    /\ cancelled = {}
    /\ last_kind = "none"
    /\ handshake = "timeout"

\* _receive_loop: await self._websocket.recv() gives the message m, which
\* _process_message handles.
recv_message(m) ==
    /\ receive_task = "recv"
    /\ rx_may_run
    /\ message' = m
    /\ rx_count' = rx_count + 1
    /\ IF m.shape = "nonobject"
       THEN /\ called_with' = called_with           \* AttributeError: except Exception
            /\ receive_task' = IF ws_running THEN "sleep" ELSE "done"
       ELSE /\ called_with' = called_with \o [i \in 1..Len(callback_lines(m)) |->
                                             <<rx_count + 1, callback_lines(m)[i]>>]
            /\ receive_task' = receive_loop_again
    /\ UNCHANGED <<ws_running, ws_connected, websocket, reconnect_delay, reconnect_task,
                   connect_pc, ws_caller, token_valid, wsHist>>

\* The probed keys under which the object has a string, by their place in Keys.
StringKeys(data) ==
    {i \in 1..Len(Keys) : data.members[Keys[i]].present /\ data.members[Keys[i]].is_str}

\* The line of an entry that is a text, an object or null.
LineOf(data) ==
    IF data.kind = "str" THEN ValueLine(data.text)
    ELSE IF data.kind = "null" THEN ValueLine("")
    ELSE IF StringKeys(data) = {} THEN DumpsLine(data)
    ELSE LET first == CHOOSE i \in StringKeys(data) : \A j \in StringKeys(data) : i <= j
         IN ValueLine(data.members[Keys[first]].text)

\* C35: the line extracted from an entry is the entry if it is a text, the
\* string under the first of message, msg, log, line, text, data that holds a
\* string if it is an object, the serialized object if no key holds a string,
\* and the empty line if it is null; the callback is invoked with that line
\* once, and not at all if the line is empty.
C35_ExtractedLine ==
    (rx_count = 1 /\ message.type = "console" /\ message.data.kind \in {"str", "obj", "null"})
        => called_with = IF LineOf(message.data) = ValueLine("")
                         THEN <<>>
                         ELSE << <<1, LineOf(message.data)>> >>

\* An object with a number under "message", the empty string under "msg" and a
\* text under "log" has been received: its line is empty and no call was made.
C35_Witness ==
    /\ rx_count = 1
    /\ message.data.kind = "obj"
    /\ message.data.members["message"] = NonStringMember
    /\ message.data.members["msg"] = StringMember("")
    /\ message.data.members["log"] = StringMember("log")
    /\ called_with = <<>>

\* The entries of a "logs" envelope whose payload is a sequence.
EntriesOf(m) ==
    IF m.logs.kind = "list" THEN m.logs.items
    ELSE IF m.logs.kind = "missing" /\ m.data.kind = "list" THEN m.data.items
    ELSE <<>>

IsBatch(m) ==
    /\ m.shape = "object" /\ m.type = "logs"
    /\ m.logs.kind = "list" \/ (m.logs.kind = "missing" /\ m.data.kind = "list")

\* The calls of the callback made by the step.
NewCalls == SubSeq(called_with', Len(called_with) + 1, Len(called_with'))

\* C36: a "logs" envelope with a sequence of entries makes one call of the
\* callback per entry whose line is not empty, in the order of the entries, all
\* of them after the calls of the envelopes before it; a "status" or "error"
\* envelope makes no call and leaves the connection open and the receive loop
\* waiting for the next message.
C36_BatchInOrder ==
    [][rx_count' = rx_count + 1
        => LET m == message'
               lines == [i \in 1..Len(EntriesOf(m)) |-> extract_log_line(EntriesOf(m)[i])]
               kept == SelectSeq(lines, Truthy)
           IN /\ Len(called_with') >= Len(called_with)
              /\ SubSeq(called_with', 1, Len(called_with)) = called_with
              /\ \A i \in 1..Len(called_with) : called_with[i][1] <= rx_count
              /\ IsBatch(m) => NewCalls = [i \in 1..Len(kept) |-> <<rx_count + 1, kept[i]>>]
              /\ (m.shape = "object" /\ m.type \in {"status", "error"})
                   => /\ NewCalls = <<>>
                      /\ websocket' = "open" /\ ws_connected'
                      /\ receive_task' = "recv"]_vars

\* A batch of two lines has been followed by a batch of an empty entry and a
\* line: three calls, in that order.
C36_Witness ==
    /\ rx_count = 2
    /\ IsBatch(message)
    /\ EntriesOf(message) = <<StringValue(""), StringValue("a")>>
    /\ called_with = << <<1, ValueLine("a")>>, <<1, ValueLine("b")>>, <<2, ValueLine("a")>> >>

(***************************************************************************)
(* LogSyncService.start() and stop() with several callers of start()       *)
(* (services/log_sync.py 55-133).  logs_on_button and on_ready call        *)
(* start() from tasks of their own; nothing but the test of _running at    *)
(* its entry keeps two calls apart, and start() sets _running after its    *)
(* awaits.                                                                 *)
(***************************************************************************)
Callers == 1..NumCallers

StartersIdle ==
    /\ start_pc = [c \in Callers |-> "idle"]
    /\ start_result = [c \in Callers |-> "unset"]
    /\ flush_task = 0
    /\ live_flush = {}
    /\ the_ws_client = 0
    /\ live_clients = {}
    /\ stop_pc = "idle"
    /\ stop_target = 0

\* What start() and stop() leave alone of the pipeline's state.
notStart == <<log_buffer, flushVars, ctl, today, ws_on, pending, line_text, received, logHist,
              callHist>>

\* start() returns.
start_returns(c, value) ==
    /\ start_pc' = [start_pc EXCEPT ![c] = "done"]
    /\ start_result' = [start_result EXCEPT ![c] = value]

\* start(): from its entry to the await of _get_thread or _create_daily_thread.
start_enter(c) ==
    /\ start_pc[c] = "idle"
    /\ IF running
       THEN /\ start_returns(c, "True")         \* if self._running: return True
            /\ UNCHANGED current_date
       ELSE /\ current_date' = today
            /\ start_pc' = [start_pc EXCEPT ![c] = IF has_thread_for_today THEN "get_thread"
                                                   ELSE "create"]
            /\ UNCHANGED start_result
    /\ UNCHANGED <<running, current_thread, stateVars, threads_created, notStart>>
    /\ UNCHANGED <<flush_task, live_flush, the_ws_client, live_clients, stop_pc, stop_target>>

\* start(): ws_client = init_websocket_client(); ws_client.on_log(...);
\* await ws_client.start()
start_await_ws(c) ==
    /\ the_ws_client' = c
    /\ start_pc' = [start_pc EXCEPT ![c] = "ws_start"]
    /\ UNCHANGED start_result

\* start(): _get_thread(state.current_thread_id) ends.
start_got_thread(c) ==
    /\ start_pc[c] = "get_thread"
    /\ \/ /\ state_current_thread_id # 0          \* the thread: resumed
          /\ current_thread' = state_current_thread_id
          /\ start_await_ws(c)
       \/ /\ start_pc' = [start_pc EXCEPT ![c] = "create"]     \* None: create a new thread
          /\ UNCHANGED <<current_thread, the_ws_client, start_result>>
    /\ UNCHANGED <<running, current_date, stateVars, threads_created, notStart>>
    /\ UNCHANGED <<flush_task, live_flush, live_clients, stop_pc, stop_target>>

\* start(): _create_daily_thread() ends.
start_created(c) ==
    /\ start_pc[c] = "create"
    /\ \/ /\ threads_created < MaxThreads
          /\ threads_created' = threads_created + 1
          /\ current_thread' = threads_created + 1
          /\ start_await_ws(c)
       \/ /\ current_thread' = 0                 \* None: return False
          /\ start_returns(c, "False")
          /\ UNCHANGED <<threads_created, the_ws_client>>
    /\ UNCHANGED <<running, current_date, stateVars, notStart>>
    /\ UNCHANGED <<flush_task, live_flush, live_clients, stop_pc, stop_target>>

\* start(): self._flush_task = asyncio.create_task(self._flush_loop())
start_flush_task(c) ==
    /\ flush_task' = c
    /\ live_flush' = live_flush \cup {c}

\* start(): await ws_client.start() ends.
start_ws_returned(c) ==
    /\ start_pc[c] = "ws_start"
    /\ \/ /\ live_clients' = live_clients \cup {c}    \* True or False: the client has a task
          /\ running' = TRUE
          /\ start_flush_task(c)
          /\ IF current_thread # 0
             THEN /\ state_logs_enabled' = TRUE       \* update_logs(enabled=True, ...)
                  /\ state_current_thread_id' = current_thread
                  /\ state_current_date' = current_date
                  /\ start_returns(c, "True")
             ELSE /\ UNCHANGED stateVars              \* self._current_thread.id raises
                  /\ start_returns(c, "False")
       \/ /\ start_returns(c, "False")                \* it raised: except Exception
          /\ UNCHANGED <<running, stateVars, flush_task, live_flush, live_clients>>
    /\ UNCHANGED <<current_thread, current_date, threads_created, notStart>>
    /\ UNCHANGED <<the_ws_client, stop_pc, stop_target>>

\* stop(): from its entry, through the cancellation of the flush task, to the
\* await of the final _flush_buffer().
stop_enter ==
    /\ stop_pc = "idle"
    /\ running                                   \* the callers test is_running
    /\ running' = FALSE
    /\ flush_task' = 0
    /\ live_flush' = live_flush \ {flush_task}
    /\ stop_pc' = "flush"
    /\ UNCHANGED <<current_thread, current_date, stateVars, threads_created, notStart>>
    /\ UNCHANGED <<start_pc, start_result, the_ws_client, live_clients, stop_target>>

\* stop(): the final flush ends; get_websocket_client(), await disconnect().
stop_flushed ==
    /\ stop_pc = "flush"
    /\ stop_target' = the_ws_client
    /\ stop_pc' = "disconnect"
    /\ UNCHANGED <<running, current_thread, current_date, stateVars, threads_created, notStart>>
    /\ UNCHANGED <<start_pc, start_result, flush_task, live_flush, the_ws_client, live_clients>>

\* stop(): disconnect() ends; update_logs(enabled=False).
stop_disconnected ==
    /\ stop_pc = "disconnect"
    /\ live_clients' = live_clients \ {stop_target}
    /\ state_logs_enabled' = FALSE
    /\ stop_pc' = "done"
    /\ UNCHANGED <<running, current_thread, current_date, state_current_thread_id,
                   state_current_date, threads_created, notStart>>
    /\ UNCHANGED <<start_pc, start_result, flush_task, live_flush, the_ws_client, stop_target>>

\* C37: however the calls of start() overlap, at most one stream client and at
\* most one flush task are alive.
C37_OneClientOneFlushTask ==
    /\ Cardinality(live_clients) <= 1
    /\ Cardinality(live_flush) <= 1

(***************************************************************************)
(* The bot process (bot.py): close() on shutdown, a new process, on_ready.  *)
(* The state file outlives the process; everything else starts afresh.     *)
(***************************************************************************)
\* A process that is up, without auto-resume.
ProcIdle ==
    /\ proc = "up"
    /\ auto_resume = FALSE
    /\ ran_at_close = FALSE

\* main(): the process is constructed; on_ready has not run.
ProcInit ==
    /\ proc = "ready"
    /\ auto_resume \in BOOLEAN
    /\ ran_at_close = FALSE

\* close(): if log_sync.is_running: await log_sync.stop()
close_enter ==
    /\ proc = "up"
    /\ ctl = "idle"
    /\ ran_at_close' = running
    /\ IF running
       THEN stop_begin /\ proc' = "closing"
       ELSE UNCHANGED logVars /\ proc' = "down"
    /\ UNCHANGED auto_resume

\* close(): stop() has ended; the clients are closed and the process exits.
close_exit ==
    /\ proc = "closing"
    /\ ctl = "idle"
    /\ proc' = "down"
    /\ UNCHANGED <<logVars, auto_resume, ran_at_close>>

\* The process ends without close() having run.
process_killed ==
    /\ proc = "up"
    /\ proc' = "down"
    /\ ran_at_close' = FALSE
    /\ UNCHANGED <<logVars, auto_resume>>

\* main() in a new process: init_state_manager loads the state file,
\* init_log_sync constructs a LogSyncService.
process_start ==
    /\ proc = "down"
    /\ proc' = "ready"
    /\ running' = FALSE
    /\ log_buffer' = <<>>
    /\ current_thread' = 0
    /\ current_date' = 0
    /\ fpc' = [c \in Flushers |-> "none"]
    /\ flogs' = [c \in Flushers |-> <<>>]
    /\ fchunks' = [c \in Flushers |-> <<>>]
    /\ fthread' = [c \in Flushers |-> 0]
    /\ ctl' = "idle"
    /\ ws_on' = FALSE
    /\ pending' = <<>>
    /\ UNCHANGED <<stateVars, today, line_text, received, threads_created, logHist, callHist>>
    /\ UNCHANGED <<auto_resume, ran_at_close>>

\* on_ready(): if config.logs.auto_resume and state.state.logs_enabled:
\* await log_sync.start()
on_ready ==
    /\ proc = "ready"
    /\ proc' = "up"
    /\ IF auto_resume /\ state_logs_enabled
       THEN start_begin
       ELSE UNCHANGED logVars
    /\ UNCHANGED <<auto_resume, ran_at_close>>

\* C39: when close() found the pipeline running and auto_resume is configured,
\* on_ready of the next process calls start(), which looks the persisted thread
\* up if its date is today's.
C39_ResumeAfterGracefulClose ==
    [][(proc = "ready" /\ proc' = "up" /\ ran_at_close /\ auto_resume)
         => /\ ctl' \in {"start_get_thread", "start_create"}
            /\ has_thread_for_today => ctl' = "start_get_thread"]_vars

(***************************************************************************)
(* Commands typed into the log thread (cogs/dashboard.py 428-477).  A      *)
(* message is its author's kind, the channel it is in (0: not a thread,    *)
(* else the thread's id), whether the author has the allowed role, and its *)
(* content.                                                                *)
(***************************************************************************)
Message(bot, channel, role, content) ==
    [bot |-> bot, channel |-> channel, role |-> role, content |-> content]

\* A command from a member with the role in each thread, and in thread 1 the
\* messages that fail one test each: by a bot, without the role, empty, blank;
\* and a command outside any thread.
Messages ==
    {Message(FALSE, th, TRUE, <<Blank, "a">>) : th \in 1..MaxThreads}
    \cup {Message(TRUE, 1, TRUE, <<"a">>), Message(FALSE, 1, FALSE, <<"a">>),
          Message(FALSE, 1, TRUE, <<>>), Message(FALSE, 1, TRUE, <<Blank, NL>>),
          Message(FALSE, 0, TRUE, <<"a">>)}

NoForward == [bot |-> TRUE, channel |-> 0, role |-> FALSE, content |-> <<>>]

CmdIdle == last_forward = NoForward

\* if message.channel.id != state.state.current_thread_id: return
in_some_thread(channel) == channel # 0

in_current_thread(channel) == channel = state_current_thread_id

\* on_message(message), up to "await client.send_command(command)".
on_message(m) ==
    /\ last_forward' =
         IF m.bot THEN NoForward                                \* message.author.bot
         ELSE IF m.channel = 0 THEN NoForward                   \* not a discord.Thread
         ELSE IF state_current_thread_id = 0 THEN NoForward     \* no current_thread_id
         ELSE IF ~in_current_thread(m.channel) THEN NoForward
         ELSE IF ~state_logs_enabled THEN NoForward
         ELSE IF ~m.role THEN NoForward                         \* no allowed role
         ELSE IF m.content = <<>> \/ strip_is_empty(m.content) THEN NoForward
         ELSE m                                                 \* send_command(command)
    /\ UNCHANGED logVars

\* C40: a message is passed on as a command only if, at that moment, its author
\* is no bot and has the allowed role, it is in the thread whose id is the
\* persisted one, logs_enabled is persisted true and its content is not blank;
\* so none is passed on once stop() has returned, and none from a thread that
\* a rotation has replaced.
C40_ForwardedOnlyFromLiveThread ==
    [][last_forward' # NoForward
         => /\ ~last_forward'.bot
            /\ last_forward'.role
            /\ last_forward'.channel # 0
            /\ last_forward'.channel = state_current_thread_id
            /\ state_logs_enabled
            /\ \E i \in 1..Len(last_forward'.content) :
                   last_forward'.content[i] \notin {Blank, NL}
            /\ ~PipelineStopped
            /\ (state_current_date = today /\ current_thread = state_current_thread_id)
                 => last_forward'.channel \notin rotated_from]_vars

\* A command from the new day's thread has been passed on after the rotation
\* that replaced thread 1.
C40_Witness ==
    /\ last_forward # NoForward
    /\ last_forward.channel = 2
    /\ last_forward.content = <<Blank, "a">>
    /\ state_current_thread_id = 2
    /\ 1 \in rotated_from

(***************************************************************************)
(* Specifications                                                          *)
(***************************************************************************)
\* What the button handlers, and what the log pipeline, leave alone.
notDash == <<max_chars_per_post, splitVars, logVars, apiVars, wsVars, sendHist, appendHist, lineHist, rxVars,
    startVars, procVars, cmdHist>>
notLogNorSend == <<dashVars, max_chars_per_post, splitVars, apiVars, wsVars, appendHist, lineHist, rxVars,
    startVars, procVars, cmdHist>>
notLogNorAppend == <<dashVars, max_chars_per_post, splitVars, apiVars, wsVars, sendHist, lineHist, rxVars,
    startVars, procVars, cmdHist>>
notLogNorLine == <<dashVars, max_chars_per_post, splitVars, apiVars, wsVars, sendHist, appendHist, rxVars,
    startVars, procVars, cmdHist>>
notLog == <<notLogNorSend, sendHist>>
notLock == <<max_chars_per_post, splitVars, logVars, wsVars, sendHist, appendHist, lineHist, rxVars,
    startVars, procVars, cmdHist>>
notWsNorRx == <<dashVars, max_chars_per_post, splitVars, logVars, apiVars, sendHist, appendHist, lineHist,
    startVars, procVars, cmdHist>>
notWs == <<notWsNorRx, rxVars>>

\* The button handlers alone; the splitter and the log pipeline stay idle.
Init == DashInit /\ SplitIdle /\ LogInit /\ ApiInit /\ WsIdle /\ RxInit /\ StartersIdle /\ ProcIdle /\ CmdIdle
Next ==
    \/ (Tick) /\ UNCHANGED notDash
    \/ (\E t \in Tasks : press(t)) /\ UNCHANGED notDash
    \/ (\E t \in Tasks : refused_return(t)) /\ UNCHANGED notDash
    \/ (\E t \in Tasks : defer_done(t)) /\ UNCHANGED notDash
    \/ (\E t \in Tasks : call_return(t)) /\ UNCHANGED notDash
    \/ (\E t \in Tasks : sleep_done(t)) /\ UNCHANGED notDash
    \/ (\E t \in Tasks : followup_done(t)) /\ UNCHANGED notDash
    \/ (\E t \in Tasks : dashboard_done(t)) /\ UNCHANGED notDash
Spec == Init /\ [][Next]_vars

\* The splitter alone.
DashIdle ==
    /\ now = StartTime
    /\ cooldown_sec = 0
    /\ stop_timeout_sec = 0
    /\ GlobalActionLockInit
    /\ pc = [t \in Tasks |-> "idle"]
    /\ button = [t \in Tasks |-> None]
    /\ result = [t \in Tasks |-> NoResult]
    /\ wake = [t \in Tasks |-> 0]
    /\ last_action_type = None
    /\ granted = [t \in Tasks |-> FALSE]
    /\ releases = [t \in Tasks |-> 0]
    /\ grant_time = -1

SplitNext ==
    call_split_message
    /\ UNCHANGED <<dashVars, logVars, apiVars, wsVars, sendHist, appendHist, lineHist, rxVars,
                 startVars, procVars, cmdHist>>
SplitSpecInit == DashIdle /\ SplitInit /\ LogInit /\ ApiInit /\ WsIdle /\ RxInit /\ StartersIdle /\ ProcIdle /\ CmdIdle
SpecSplit == SplitSpecInit /\ [][SplitNext]_vars

\* The log pipeline alone, with a budget of MaxBudget characters per chunk.
LogSpecInit == DashIdle /\ SplitIdle /\ LogInit /\ ApiInit /\ WsIdle /\ RxInit /\ StartersIdle /\ ProcIdle /\ CmdIdle
LogSpecNext ==
    \/ (on_log_received) /\ UNCHANGED notLog
    \/ (add_to_buffer) /\ UNCHANGED notLog
    \/ (flush_tick) /\ UNCHANGED notLog
    \/ (\E c \in Flushers : flush_create_return(c)) /\ UNCHANGED notLog
    \/ (\E c \in Flushers : flush_send_return(c)) /\ UNCHANGED notLog
    \/ (\E c \in Flushers : flush_retry_wait_return(c)) /\ UNCHANGED notLog
    \/ (\E c \in Flushers : flush_retry_send_return(c)) /\ UNCHANGED notLog
    \/ (start_begin) /\ UNCHANGED notLog
    \/ (start_get_thread_return) /\ UNCHANGED notLog
    \/ (start_create_return) /\ UNCHANGED notLog
    \/ (start_ws_return) /\ UNCHANGED notLog
    \/ (stop_begin) /\ UNCHANGED notLog
    \/ (flush_cancelled) /\ UNCHANGED notLog
    \/ (stop_final_flush) /\ UNCHANGED notLog
    \/ (stop_disconnect_return) /\ UNCHANGED notLog
    \/ (next_day) /\ UNCHANGED notLog
SpecLog == LogSpecInit /\ [][LogSpecNext]_vars

\* The log pipeline within one day, with the outcome of each send recorded: the
\* date does not change, so no flush rotates the thread.
SendObserved(outcome) == last_send' = outcome /\ UNCHANGED notLogNorSend
FlushSpecInit == DashIdle /\ SplitIdle /\ LogInit /\ ApiInit /\ WsIdle /\ RxInit /\ StartersIdle /\ ProcIdle /\ CmdIdle
FlushSpecNext ==
    \/ (on_log_received) /\ SendObserved(NoSend)
    \/ (add_to_buffer) /\ SendObserved(NoSend)
    \/ (flush_tick) /\ SendObserved(NoSend)
    \/ (\E c \in Flushers, outcome \in SendOutcomes :
           send_returns(c, outcome) /\ SendObserved(<<c, outcome>>))
    \/ (\E c \in Flushers : flush_retry_wait_return(c)) /\ SendObserved(NoSend)
    \/ (\E c \in Flushers, outcome \in RetryOutcomes :
           retry_returns(c, outcome) /\ SendObserved(<<c, outcome>>))
    \/ (start_begin) /\ SendObserved(NoSend)
    \/ (start_get_thread_return) /\ SendObserved(NoSend)
    \/ (start_create_return) /\ SendObserved(NoSend)
    \/ (start_ws_return) /\ SendObserved(NoSend)
    \/ (stop_begin) /\ SendObserved(NoSend)
    \/ (flush_cancelled) /\ SendObserved(NoSend)
    \/ (stop_final_flush) /\ SendObserved(NoSend)
    \/ (stop_disconnect_return) /\ SendObserved(NoSend)
SpecFlush == FlushSpecInit /\ [][FlushSpecNext]_vars

\* One run of the log pipeline, with what each append ran beside recorded:
\* start() is called until it succeeds and not again once stop() has been called.
AppendObserved == UNCHANGED <<notLogNorAppend, appendHist>>
DrainSpecInit == DashIdle /\ SplitIdle /\ LogInit /\ ApiInit /\ WsIdle /\ RxInit /\ StartersIdle /\ ProcIdle /\ CmdIdle
DrainSpecNext ==
    \/ (on_log_received) /\ AppendObserved
    \/ (add_to_buffer /\ append_observed) /\ UNCHANGED notLogNorAppend
    \/ (flush_tick) /\ AppendObserved
    \/ (\E c \in Flushers : flush_create_return(c)) /\ AppendObserved
    \/ (\E c \in Flushers : flush_send_return(c)) /\ AppendObserved
    \/ (\E c \in Flushers : flush_retry_wait_return(c)) /\ AppendObserved
    \/ (\E c \in Flushers : flush_retry_send_return(c)) /\ AppendObserved
    \/ (start_begin /\ stop_ret = "unset") /\ AppendObserved
    \/ (start_create_return) /\ AppendObserved
    \/ (start_ws_return) /\ AppendObserved
    \/ (stop_begin) /\ AppendObserved
    \/ (flush_cancelled) /\ AppendObserved
    \/ (stop_final_flush) /\ AppendObserved
    \/ (stop_disconnect_return) /\ AppendObserved
    \/ (next_day) /\ AppendObserved
SpecDrain == DrainSpecInit /\ [][DrainSpecNext]_vars

\* One run of the log pipeline, with the text of each call of the callback
\* recorded.
LineObserved(t) == last_line' = t /\ UNCHANGED notLogNorLine
IngestSpecInit == DashIdle /\ SplitIdle /\ LogInit /\ ApiInit /\ WsIdle /\ RxInit /\ StartersIdle /\ ProcIdle /\ CmdIdle
IngestSpecNext ==
    \/ (\E t \in CallbackTexts : log_received(t) /\ LineObserved(t))
    \/ (add_to_buffer) /\ LineObserved(NoLine)
    \/ (flush_tick) /\ LineObserved(NoLine)
    \/ (\E c \in Flushers : flush_create_return(c)) /\ LineObserved(NoLine)
    \/ (\E c \in Flushers : flush_send_return(c)) /\ LineObserved(NoLine)
    \/ (\E c \in Flushers : flush_retry_wait_return(c)) /\ LineObserved(NoLine)
    \/ (\E c \in Flushers : flush_retry_send_return(c)) /\ LineObserved(NoLine)
    \/ (start_begin /\ stop_ret = "unset") /\ LineObserved(NoLine)
    \/ (start_create_return) /\ LineObserved(NoLine)
    \/ (start_ws_return) /\ LineObserved(NoLine)
    \/ (stop_begin) /\ LineObserved(NoLine)
    \/ (flush_cancelled) /\ LineObserved(NoLine)
    \/ (stop_final_flush) /\ LineObserved(NoLine)
    \/ (stop_disconnect_return) /\ LineObserved(NoLine)
    \/ (next_day) /\ LineObserved(NoLine)
SpecIngest == IngestSpecInit /\ [][IngestSpecNext]_vars

\* The lock alone: no button handler runs.
LockSpecInit == DashInit /\ SplitIdle /\ LogInit /\ ApiInit /\ WsIdle /\ RxInit /\ StartersIdle /\ ProcIdle /\ CmdIdle
LockSpecNext ==
    \/ (Tick) /\ UNCHANGED <<notLock, apiVars>>
    \/ (call_acquire) /\ UNCHANGED notLock
    \/ (call_release) /\ UNCHANGED notLock
    \/ (call_get_remaining_cooldown) /\ UNCHANGED notLock
SpecLock == LockSpecInit /\ [][LockSpecNext]_vars

\* The stream client alone.
WsSpecInit ==
    DashIdle /\ SplitIdle /\ LogInit /\ ApiInit /\ WsInit /\ token_valid \in BOOLEAN /\ RxInit /\ StartersIdle /\ ProcIdle /\ CmdIdle
WsSpecNext ==
    \/ (ws_start) /\ UNCHANGED notWs
    \/ (connect_auth_return) /\ UNCHANGED notWs
    \/ (connect_dial_return) /\ UNCHANGED notWs
    \/ (connect_hello_return) /\ UNCHANGED notWs
    \/ (connect_close_return) /\ UNCHANGED notWs
    \/ (receive_recv_return) /\ UNCHANGED notWs
    \/ (receive_sleep_return) /\ UNCHANGED notWs
    \/ (reconnect_sleep_return) /\ UNCHANGED notWs
    \/ (disconnect_begin) /\ UNCHANGED notWs
    \/ (receive_cancelled) /\ UNCHANGED notWs
    \/ (disconnect_after_receive) /\ UNCHANGED notWs
    \/ (reconnect_cancelled) /\ UNCHANGED notWs
    \/ (disconnect_after_reconnect) /\ UNCHANGED notWs
    \/ (disconnect_close_return) /\ UNCHANGED notWs
    \/ (token_expire) /\ UNCHANGED notWs
SpecWs == WsSpecInit /\ [][WsSpecNext]_vars

\* The event loop runs every task that is ready: a sleep, a connection attempt
\* and a token request all end.
WsFairness ==
    /\ WF_vars(reconnect_sleep_return /\ UNCHANGED notWs)
    /\ WF_vars(connect_auth_return /\ UNCHANGED notWs)
    /\ WF_vars(connect_dial_return /\ UNCHANGED notWs)
    /\ WF_vars(connect_hello_return /\ UNCHANGED notWs)
    /\ WF_vars(connect_close_return /\ UNCHANGED notWs)
    /\ WF_vars(receive_sleep_return /\ UNCHANGED notWs)
SpecWsFair == SpecWs /\ WsFairness

\* start() called by NumCallers handlers, and one call of stop().
notStarters == <<dashVars, max_chars_per_post, splitVars, apiVars, wsVars, sendHist, appendHist,
                 lineHist, rxVars, procVars, cmdHist>>
StartSpecInit == DashIdle /\ SplitIdle /\ LogInit /\ ApiInit /\ WsIdle /\ RxInit /\ StartersIdle /\ ProcIdle /\ CmdIdle
StartSpecNext ==
    \/ (\E c \in Callers : start_enter(c)) /\ UNCHANGED notStarters
    \/ (\E c \in Callers : start_got_thread(c)) /\ UNCHANGED notStarters
    \/ (\E c \in Callers : start_created(c)) /\ UNCHANGED notStarters
    \/ (\E c \in Callers : start_ws_returned(c)) /\ UNCHANGED notStarters
    \/ (stop_enter) /\ UNCHANGED notStarters
    \/ (stop_flushed) /\ UNCHANGED notStarters
    \/ (stop_disconnected) /\ UNCHANGED notStarters
SpecStart == StartSpecInit /\ [][StartSpecNext]_vars

\* The pipeline over the life of several processes, with no line received:
\* Logs ON and Logs OFF while the process is up, close(), the next process.
notLogNorProc == <<dashVars, max_chars_per_post, splitVars, apiVars, wsVars, sendHist, appendHist,
                   lineHist, rxVars, startVars, cmdHist>>
ProcessUp == proc = "up" /\ UNCHANGED <<procVars, notLogNorProc>>
ProcessRuns == proc \in {"up", "closing"} /\ UNCHANGED <<procVars, notLogNorProc>>
RestartSpecInit ==
    DashIdle /\ SplitIdle /\ LogInit /\ ApiInit /\ WsIdle /\ RxInit /\ StartersIdle /\ ProcInit
    /\ CmdIdle
RestartSpecNext ==
    \/ (start_begin) /\ ProcessUp
    \/ (start_get_thread_return) /\ ProcessRuns
    \/ (start_create_return) /\ ProcessRuns
    \/ (start_ws_return) /\ ProcessRuns
    \/ (flush_tick) /\ ProcessRuns
    \/ (stop_begin) /\ ProcessUp
    \/ (flush_cancelled) /\ ProcessRuns
    \/ (stop_final_flush) /\ ProcessRuns
    \/ (stop_disconnect_return) /\ ProcessRuns
    \/ (next_day) /\ UNCHANGED <<procVars, notLogNorProc>>
    \/ (close_enter) /\ UNCHANGED notLogNorProc
    \/ (close_exit) /\ UNCHANGED notLogNorProc
    \/ (process_killed) /\ UNCHANGED notLogNorProc
    \/ (process_start) /\ UNCHANGED notLogNorProc
    \/ (on_ready) /\ UNCHANGED notLogNorProc
SpecRestart == RestartSpecInit /\ [][RestartSpecNext]_vars

\* One run of the log pipeline with messages arriving in the threads.
notLogNorCmd == <<dashVars, max_chars_per_post, splitVars, apiVars, wsVars, sendHist, appendHist,
                  lineHist, rxVars, startVars, procVars>>
NoMessageForwarded == last_forward' = NoForward /\ UNCHANGED notLogNorCmd
CmdSpecInit ==
    DashIdle /\ SplitIdle /\ LogInit /\ ApiInit /\ WsIdle /\ RxInit /\ StartersIdle /\ ProcIdle
    /\ CmdIdle
CmdSpecNext ==
    \/ (\E m \in Messages : on_message(m)) /\ UNCHANGED notLogNorCmd
    \/ (on_log_received) /\ NoMessageForwarded
    \/ (add_to_buffer) /\ NoMessageForwarded
    \/ (flush_tick) /\ NoMessageForwarded
    \/ (\E c \in Flushers : flush_create_return(c)) /\ NoMessageForwarded
    \/ (\E c \in Flushers : flush_send_return(c)) /\ NoMessageForwarded
    \/ (\E c \in Flushers : flush_retry_wait_return(c)) /\ NoMessageForwarded
    \/ (\E c \in Flushers : flush_retry_send_return(c)) /\ NoMessageForwarded
    \/ (start_begin /\ stop_ret = "unset") /\ NoMessageForwarded
    \/ (start_create_return) /\ NoMessageForwarded
    \/ (start_ws_return) /\ NoMessageForwarded
    \/ (stop_begin) /\ NoMessageForwarded
    \/ (flush_cancelled) /\ NoMessageForwarded
    \/ (stop_final_flush) /\ NoMessageForwarded
    \/ (stop_disconnect_return) /\ NoMessageForwarded
    \/ (next_day) /\ NoMessageForwarded
SpecCmd == CmdSpecInit /\ [][CmdSpecNext]_vars

\* A connected client receiving one console envelope, its data any entry.
ExtractSpecInit == DashIdle /\ SplitIdle /\ LogInit /\ ApiInit /\ WsConnected /\ RxInit /\ StartersIdle /\ ProcIdle /\ CmdIdle
ExtractSpecNext ==
    \/ (\E m \in ConsoleMessages : rx_count < 1 /\ recv_message(m)) /\ UNCHANGED notWsNorRx
SpecExtract == ExtractSpecInit /\ [][ExtractSpecNext]_vars

\* A connected client receiving up to MaxMsgs messages, batches among them.
MsgSpecInit == DashIdle /\ SplitIdle /\ LogInit /\ ApiInit /\ WsConnected /\ RxInit /\ StartersIdle /\ ProcIdle /\ CmdIdle
MsgSpecNext ==
    \/ (\E m \in BatchMessages : rx_count < MaxMsgs /\ recv_message(m)) /\ UNCHANGED notWsNorRx
    \/ (receive_sleep_return) /\ UNCHANGED notWs
SpecMsg == MsgSpecInit /\ [][MsgSpecNext]_vars

====
